---- MODULE Spec2Model ----
(***************************************************************************)
(* Model of the InfiniBand device layer of UCX, src/uct/ib/base/ib_device.c *)
(*                                                                         *)
(*   Spec    the async-event registry: register / wait / dispatch /        *)
(*           dispatch_fatal / unregister under dev->async_event_lock, and  *)
(*           the callback queue the waiters are scheduled on.              *)
(*   SpecAh  the address-handle cache: uct_ib_device_create_ah_cached      *)
(*           called by several threads under dev->ah_lock.                 *)
(*   SpecGid uct_ib_device_select_gid scanning a port's GID table.         *)
(*   SpecDev uct_ib_device_spec looking a device up in the catalog.        *)
(*   SpecPort uct_ib_device_port_check deciding whether a port is usable.  *)
(*   SpecLocks the two locks of the device under fair scheduling.          *)
(*   SpecLife uct_ib_device_init and uct_ib_device_cleanup around the      *)
(*     event handler and the application.                                  *)
(*   SpecHandler uct_ib_async_event_handler on a registry with waiters.    *)
(*   SpecPci uct_ib_device_set_pci_bw on the contents of the sysfs files.  *)
(*   SpecAhTeardown the address-handle cache with its teardown,            *)
(*     uct_ib_device_cleanup_ah_cached.                                    *)
(*   SpecStats the async_event counter of the handler.                     *)
(*   SpecQueryPorts uct_ib_device_query_ports listing the usable ports.    *)
(*   SpecQuery uct_ib_device_query and the locality of the device.         *)
(*   SpecRnr uct_ib_to_rnr_fabric_time encoding an RNR NAK timer.          *)
(***************************************************************************)
EXTENDS Integers, Sequences, FiniteSets, TLC

(***************************************************************************)
(* Bounds                                                                  *)
(***************************************************************************)
\* number of ucs_callbackq_add_safe() calls explored in one behaviour
MaxCbId == 2
\* length up to which the per-key operation history is recorded
MaxTrace == 2

\* threads calling uct_ib_device_create_ah_cached
NThreads == 2
\* handles the hardware can hand out
MaxAh == 2
\* successful ibv_create_ah calls explored per attribute record
MaxAhCreate == 2

\* largest gid_tbl_len of a port
MaxGidTbl == 2

\* largest md->custom_devices.count
MaxCustom == 2

\* hardware events retrieved by the handler in one behaviour
MaxEvents == 2

(***************************************************************************)
(* Values                                                                  *)
(***************************************************************************)
AhThreads == 1..NThreads

Handles == 1..MaxAh

\* struct ibv_ah_attr records: dgid and dlid are hashed, sl is not; the two
\* records have the same hash value and differ in a field that is not hashed
AhAttrs == { [dgid |-> 1, dlid |-> 1, sl |-> 0],
             [dgid |-> 1, dlid |-> 1, sl |-> 1] }

\* no attributes: kh_end of the handle cache
NoAttr == [dgid |-> 0, dlid |-> 0, sl |-> 0]

\* no handle (*ah_p not written)
NoAh == 0

NoCall == [attr |-> NoAttr, ah_p |-> NoAh, status |-> "none", errno |-> "none"]

\* uct_ib_async_event_t: (event_type, resource_id)
Keys == { [event_type |-> "QP_LAST_WQE_REACHED", resource_id |-> 1],
          [event_type |-> "QP_LAST_WQE_REACHED", resource_id |-> 2] }

\* caller-owned uct_ib_async_event_wait_t objects
WaitCtxs == {"w1", "w2"}

\* a NULL wait_ctx pointer
NULL == "NULL"

\* the callback id of a wait context with no callback scheduled
UCS_CALLBACKQ_ID_NULL == -1

\* an application thread and the async (event-loop) thread
Threads == {"app", "async"}

NoThread == "none"

\* no key (a call without a key argument)
NoEvent == [event_type |-> "none", resource_id |-> 0]

NoOp == [name |-> "none", event |-> NoEvent, wait_ctx |-> NULL]

\* contents of the sysfs gid type file of a table entry, as read by
\* ucs_read_file; the empty content stands for a file that cannot be read
GidTypeV1  == <<"I", "B", "/", "R", "o", "C", "E", " ", "v", "1", "\n">>
GidTypeV2  == <<"R", "o", "C", "E", " ", "v", "2", "\n">>
GidTypeV15 == <<"R", "o", "C", "E", " ", "v", "1", ".", "5", "\n">>
GidTypeNone == <<>>
GidTypes == {GidTypeV1, GidTypeV2, GidTypeV15, GidTypeNone}

\* a 32-bit word in network order, as its high and low 16 bits
Word32(hi, lo) == <<hi, lo>>

\* raw GIDs as four 32-bit words (s6_addr32[0..3]): the IPv4-mapped address
\* ::ffff:10.0.0.1, the IPv4-encoded multicast address ff0e::ffff:224.0.0.1,
\* the link-local IPv6 address fe80::200:ff:fe00:1
GidIPv4      == <<Word32(0, 0), Word32(0, 0), Word32(0, 65535),
                  Word32(2560, 1)>>
GidIPv4Mcast == <<Word32(65294, 0), Word32(0, 0), Word32(0, 65535),
                  Word32(57344, 1)>>
GidIPv6      == <<Word32(65152, 0), Word32(0, 0), Word32(512, 255),
                  Word32(65024, 1)>>
Gids == {GidIPv4, GidIPv4Mcast, GidIPv6}

\* a GID table entry as the hardware and sysfs present it: whether
\* ibv_query_gid succeeds, the raw gid, the type file, and whether an address
\* handle can be created for it
GidEntries ==
    { [query_ok |-> FALSE, gid |-> GidIPv6, type |-> GidTypeNone, live |-> FALSE] }
    \cup [query_ok : {TRUE}, gid : Gids, type : GidTypes, live : BOOLEAN]

\* the GID tables of a port
GidTables == UNION { [1..n -> GidEntries] : n \in 0..MaxGidTbl }

\* the caller's uct_ib_device_gid_info_t before select_gid writes to it
GidInfoUnwritten == [gid_index |-> "unwritten", ver |-> "unwritten",
                     addr_family |-> "unwritten"]

VARIABLES
    async_events_hash,  \* dev->async_events_hash: key -> [wait_ctx, fired]
    cb_id,              \* wait_ctx->cb_id of every wait context
    cbq,                \* the callback queue: id -> [wait_ctx, event, cancelled],
                        \*   cancelled: the key was unregistered since (history)
    ncb,                \* number of callbacks added to the queue so far
    dev_failed,         \* UCT_IB_DEVICE_FAILED in dev->flags
    async_event_lock,   \* owner of dev->async_event_lock, or NoThread
    pc,                 \* per thread: "idle", "cs" (lock held), "rel" (body done)
    op,                 \* per thread: the call in progress
    status,             \* per thread: the status the call in progress returns
    \* history variables
    registered,         \* keys whose register returned OK and unregister did not return since
    trace,              \* per key: the operations applied since its registration
    nsched,             \* per key: callbacks scheduled since its registration
    late,               \* a callback was invoked after its key's unregister
    fatal_ran,          \* dispatch_fatal has run
    assert_failed,      \* the assertion of schedule_callback was violated
    \* the address-handle cache
    ah_hash,            \* dev->ah_hash: attributes -> handle
    ah_lock,            \* dev->ah_lock: [owner, count] (recursive)
    ah_pc,              \* per thread: position in create_ah_cached
    ah_call,            \* per thread: [attr, ah_p, status] of the call in progress
    ah_live,            \* the handles ibv_create_ah returned and nobody destroyed
    \* history variables
    ah_raced,           \* attributes requested by a thread while another thread
                        \*   was in a call for them and they were not cached
    ah_given,           \* per attributes: the <<thread, handle>> returned with UCS_OK
    ah_for,             \* per live handle: the attributes it was created for
    ah_ncreate,         \* per attributes: successful ibv_create_ah calls
    ah_create_failed,   \* an ibv_create_ah call has failed
    ah_put_failed,      \* a kh_put of the handle cache has failed
    \* uct_ib_device_select_gid
    gid_tbl,            \* the GID table of the port
    gid_pc,             \* "idle", "loop" (inside the two for loops), "out"
    prio_idx,           \* index into roce_prio
    gid_i,              \* the loop variable i
    gid_info,           \* the caller's *gid_info
    gid_status,         \* the status select_gid returns
    gid_log,            \* history: the queries and probes made, in order
    \* uct_ib_device_spec
    custom_devices,     \* md->custom_devices.specs
    dev_pci_id,         \* dev->pci_id
    spec_ret,           \* the entry uct_ib_device_spec returned
    \* uct_ib_device_port_check
    port_args,          \* the device, the port, the configuration and the flags
    port_status,        \* the status uct_ib_device_port_check returned
    \* the life of the device and the event handler
    life,               \* position in uct_ib_device_init / _cleanup, what is
                        \*   initialised, whether the handler is registered
    hdl,                \* uct_ib_async_event_handler: position, the event,
                        \*   what this invocation has done so far
    \* uct_ib_device_set_pci_bw
    pci,                \* the sysfs inputs and dev->pci_bw
    \* uct_ib_device_cleanup_ah_cached
    td,                 \* whether it has run and the ibv_destroy_ah calls it made
    \* uct_ib_device_query_ports, uct_ib_device_query, uct_ib_to_rnr_fabric_time
    fcall               \* a call of one of them: its arguments and its result

evvars == <<async_events_hash, cb_id, cbq, ncb, dev_failed, async_event_lock,
            pc, op, status, registered, trace, nsched, late, fatal_ran,
            assert_failed>>

ahvars == <<ah_hash, ah_lock, ah_pc, ah_call, ah_given, ah_raced, ah_live,
            ah_for, ah_ncreate, ah_create_failed, ah_put_failed>>

gidvars == <<gid_tbl, gid_pc, prio_idx, gid_i, gid_info, gid_status, gid_log>>

specvars == <<custom_devices, dev_pci_id, spec_ret>>

portvars == <<port_args, port_status>>

morevars == <<life, hdl, pci, td, fcall>>

fnvars == <<gidvars, specvars, portvars, morevars>>

vars == <<evvars, ahvars, fnvars>>

(***************************************************************************)
(* The registry state a critical section works on                          *)
(***************************************************************************)
EvState == [hash |-> async_events_hash, cb_id |-> cb_id, cbq |-> cbq,
            ncb |-> ncb, nsched |-> nsched, failed |-> dev_failed,
            assert_failed |-> assert_failed]

\* uct_ib_async_event_hash_equal
uct_ib_async_event_hash_equal(event1, event2) ==
    /\ event1.event_type = event2.event_type
    /\ event1.resource_id = event2.resource_id

\* kh_end: no such key
kh_end == [event_type |-> "kh_end", resource_id |-> 0]

\* kh_get(uct_ib_async_event, hash, event): the stored key equal to event
kh_get_event(hash, event) ==
    IF \E k \in DOMAIN hash : uct_ib_async_event_hash_equal(k, event)
    THEN CHOOSE k \in DOMAIN hash : uct_ib_async_event_hash_equal(k, event)
    ELSE kh_end

\* kh_del
kh_del_event(hash, iter) ==
    [k \in (DOMAIN hash) \ {iter} |-> hash[k]]

\* kh_put followed by the assignment of the value
kh_put_event(hash, event, val) ==
    [k \in (DOMAIN hash) \cup {event} |-> IF k = event THEN val ELSE hash[k]]

\* the histories of the registered keys in S, one operation longer
\* (recorded up to MaxTrace operations)
Logged(tr, hash, S, name) ==
    [k \in Keys |-> IF k \in S /\ k \in DOMAIN hash /\ Len(tr[k]) < MaxTrace
                    THEN Append(tr[k], name)
                    ELSE tr[k]]

\* ucs_callbackq_add_safe: a new callback with a fresh id
ucs_callbackq_add_safe(s, wait_ctx, event) ==
    [s EXCEPT !.ncb = @ + 1,
              !.cbq = [i \in (DOMAIN s.cbq) \cup {s.ncb + 1} |->
                          IF i = s.ncb + 1
                          THEN [wait_ctx |-> wait_ctx, event |-> event,
                                cancelled |-> FALSE]
                          ELSE s.cbq[i]]]

\* ucs_callbackq_remove_safe: the callback with this id leaves the queue
ucs_callbackq_remove_safe(s, id) ==
    [s EXCEPT !.cbq = [i \in (DOMAIN s.cbq) \ {id} |-> s.cbq[i]]]

\* uct_ib_device_async_event_schedule_callback
uct_ib_device_async_event_schedule_callback(s, wait_ctx, event) ==
    LET a == ucs_callbackq_add_safe(s, wait_ctx, event)
    IN [a EXCEPT !.cb_id[wait_ctx] = a.ncb,
                 !.nsched[event] = @ + 1,
                 !.assert_failed =
                     @ \/ (s.cb_id[wait_ctx] # UCS_CALLBACKQ_ID_NULL)]

\* faulty variant: dispatch creates the entry of a key that has none
dispatch_inserts_missing_key(s, event) ==
    LET h == IF event \in DOMAIN s.hash
             THEN s.hash
             ELSE kh_put_event(s.hash, event, [wait_ctx |-> NULL, fired |-> FALSE])
        f == [s EXCEPT !.hash = [h EXCEPT ![event].fired = TRUE]]
    IN IF f.hash[event].wait_ctx # NULL
       THEN uct_ib_device_async_event_schedule_callback(
                f, f.hash[event].wait_ctx, event)
       ELSE f

\* uct_ib_device_async_event_dispatch_nolock
uct_ib_device_async_event_dispatch_nolock(s, event) ==
    LET iter == kh_get_event(s.hash, event)
    IN IF iter = kh_end
       THEN s
       ELSE LET f == [s EXCEPT !.hash[iter].fired = TRUE]
            IN IF f.hash[iter].wait_ctx # NULL
               THEN uct_ib_device_async_event_schedule_callback(
                        f, f.hash[iter].wait_ctx, iter)
               ELSE f

\* kh_foreach_key(..., dispatch_nolock) over the keys in the order "order"
RECURSIVE DispatchEach(_, _)
DispatchEach(s, order) ==
    IF DOMAIN order = {}
    THEN s
    ELSE DispatchEach(
             uct_ib_device_async_event_dispatch_nolock(s, Head(order)),
             Tail(order))

\* the orders in which kh_foreach_key may visit a set of keys
Orders(S) ==
    { o \in [1..Cardinality(S) -> S] : \A k \in S : \E i \in DOMAIN o : o[i] = k }

\* uct_ib_device_async_event_inprogress
uct_ib_device_async_event_inprogress(s, entry) ==
    /\ entry.wait_ctx # NULL
    /\ s.cb_id[entry.wait_ctx] # UCS_CALLBACKQ_ID_NULL

\* faulty variant: the new entry takes over the state of the previous
\* registration of the key (fired)
register_entry_fired(s, event, put_ok) ==
    IF ~put_ok
    THEN [st |-> s, status |-> "UCS_ERR_NO_MEMORY"]
    ELSE [st |-> [s EXCEPT !.hash = kh_put_event(
                                       s.hash, event,
                                       [wait_ctx |-> NULL, fired |-> TRUE]),
                           !.nsched[event] = 0],
          status |-> "UCS_OK"]

\* the body of uct_ib_device_async_event_register; put_ok: kh_put could grow
\* the table
uct_ib_device_async_event_register(s, event, put_ok) ==
    IF ~put_ok
    THEN [st |-> s, status |-> "UCS_ERR_NO_MEMORY"]
    ELSE [st |-> [s EXCEPT !.hash = kh_put_event(
                                       s.hash, event,
                                       [wait_ctx |-> NULL, fired |-> FALSE]),
                           !.nsched[event] = 0],
          status |-> "UCS_OK"]

\* faulty variant: wait attaches the waiter and never looks at the fired flag
wait_without_fired_check(s, event, wait_ctx) ==
    LET iter == kh_get_event(s.hash, event)
        entry == s.hash[iter]
    IN IF uct_ib_device_async_event_inprogress(s, entry)
       THEN [st |-> s, status |-> "UCS_ERR_BUSY"]
       ELSE [st |-> [s EXCEPT !.cb_id[wait_ctx] = UCS_CALLBACKQ_ID_NULL,
                              !.hash[iter].wait_ctx = wait_ctx],
             status |-> "UCS_OK"]

\* faulty variant: wait resets the callback id before the in-progress test
wait_resets_before_busy_check(s, event, wait_ctx) ==
    LET iter == kh_get_event(s.hash, event)
        z == [s EXCEPT !.cb_id[wait_ctx] = UCS_CALLBACKQ_ID_NULL]
    IN IF uct_ib_device_async_event_inprogress(z, z.hash[iter])
       THEN [st |-> z, status |-> "UCS_ERR_BUSY"]
       ELSE LET a == [z EXCEPT !.hash[iter].wait_ctx = wait_ctx]
            IN [st |-> IF a.hash[iter].fired
                       THEN uct_ib_device_async_event_schedule_callback(
                                a, wait_ctx, iter)
                       ELSE a,
                status |-> "UCS_OK"]

\* faulty variant: a wait that schedules its callback consumes the fired flag
wait_consumes_fired(s, event, wait_ctx) ==
    LET iter == kh_get_event(s.hash, event)
        entry == s.hash[iter]
    IN IF uct_ib_device_async_event_inprogress(s, entry)
       THEN [st |-> s, status |-> "UCS_ERR_BUSY"]
       ELSE LET a == [s EXCEPT !.cb_id[wait_ctx] = UCS_CALLBACKQ_ID_NULL,
                               !.hash[iter].wait_ctx = wait_ctx]
            IN [st |-> IF a.hash[iter].fired
                       THEN [uct_ib_device_async_event_schedule_callback(
                                 a, wait_ctx, iter)
                             EXCEPT !.hash[iter].fired = FALSE]
                       ELSE a,
                status |-> "UCS_OK"]

\* the body of uct_ib_device_async_event_wait
uct_ib_device_async_event_wait(s, event, wait_ctx) ==
    LET iter == kh_get_event(s.hash, event)
        entry == s.hash[iter]
    IN IF uct_ib_device_async_event_inprogress(s, entry)
       THEN [st |-> s, status |-> "UCS_ERR_BUSY"]
       ELSE LET a == [s EXCEPT !.cb_id[wait_ctx] = UCS_CALLBACKQ_ID_NULL,
                               !.hash[iter].wait_ctx = wait_ctx]
            IN [st |-> IF a.hash[iter].fired
                       THEN uct_ib_device_async_event_schedule_callback(
                                a, wait_ctx, iter)
                       ELSE a,
                status |-> "UCS_OK"]

\* faulty variant: unregister deletes the entry and leaves the scheduled
\* callback of its waiter in the callback queue
unregister_keeps_callback(s, event) ==
    [s EXCEPT !.hash = kh_del_event(s.hash, kh_get_event(s.hash, event))]

\* the body of uct_ib_device_async_event_unregister
uct_ib_device_async_event_unregister(s, event) ==
    LET iter == kh_get_event(s.hash, event)
        entry == s.hash[iter]
        r == IF uct_ib_device_async_event_inprogress(s, entry)
             THEN ucs_callbackq_remove_safe(s, s.cb_id[entry.wait_ctx])
             ELSE s
    IN [r EXCEPT !.hash = kh_del_event(r.hash, iter)]

\* faulty variant: dispatch_fatal dispatches the keys and leaves dev->flags
dispatch_fatal_without_flag(s, order) ==
    DispatchEach(s, order)

\* the body of uct_ib_device_async_event_dispatch_fatal
uct_ib_device_async_event_dispatch_fatal(s, order) ==
    DispatchEach([s EXCEPT !.failed = TRUE], order)

(***************************************************************************)
(* Calls                                                                   *)
(***************************************************************************)
Attached(hash, wait_ctx) == {k \in DOMAIN hash : hash[k].wait_ctx = wait_ctx}

\* the calls a thread may make now: the callers keep register/unregister
\* balanced (the assertions of register, wait and unregister) and give a wait
\* context to one key at a time; dispatch comes from the async thread
Calls(t) ==
    IF t = "async"
    THEN { [name |-> "dispatch", event |-> k, wait_ctx |-> NULL] : k \in Keys }
         \cup { [name |-> "dispatch_fatal", event |-> NoEvent, wait_ctx |-> NULL] }
    ELSE { [name |-> "register", event |-> k, wait_ctx |-> NULL] :
               k \in Keys \ DOMAIN async_events_hash }
         \cup { [name |-> "unregister", event |-> k, wait_ctx |-> NULL] :
                   k \in DOMAIN async_events_hash }
         \cup { c \in [name : {"wait"}, event : DOMAIN async_events_hash,
                       wait_ctx : WaitCtxs] :
                   Attached(async_events_hash, c.wait_ctx) \subseteq {c.event} }

\* history: the queued callbacks of a key that is being unregistered
Cancelled(q, event) ==
    [i \in DOMAIN q |-> IF q[i].event = event
                        THEN [q[i] EXCEPT !.cancelled = TRUE]
                        ELSE q[i]]

\* the state a critical section leaves
Store(s) ==
    /\ async_events_hash' = s.hash
    /\ cb_id' = s.cb_id
    /\ cbq' = s.cbq
    /\ ncb' = s.ncb
    /\ nsched' = s.nsched
    /\ dev_failed' = s.failed
    /\ assert_failed' = s.assert_failed

\* faulty variant: the lock is taken although another thread holds it
lock_not_exclusive(t, o) ==
    /\ pc[t] = "idle"
    /\ o \in Calls(t)
    /\ async_event_lock' = t
    /\ pc' = [pc EXCEPT ![t] = "cs"]
    /\ op' = [op EXCEPT ![t] = o]
    /\ UNCHANGED <<ahvars, fnvars>>
    /\ UNCHANGED <<async_events_hash, cb_id, cbq, ncb, dev_failed, status,
                   registered, trace, nsched, late, fatal_ran,
                   assert_failed>>

\* ucs_spin_lock(&dev->async_event_lock) at the start of a call
Lock(t, o) ==
    /\ pc[t] = "idle"
    /\ async_event_lock = NoThread
    /\ o \in Calls(t)
    /\ async_event_lock' = t
    /\ pc' = [pc EXCEPT ![t] = "cs"]
    /\ op' = [op EXCEPT ![t] = o]
    /\ UNCHANGED <<ahvars, fnvars>>
    /\ UNCHANGED <<async_events_hash, cb_id, cbq, ncb, dev_failed, status,
                   registered, trace, nsched, late, fatal_ran,
                   assert_failed>>

Register(t) ==
    /\ pc[t] = "cs" /\ op[t].name = "register"
    /\ \E put_ok \in BOOLEAN :
          LET r == uct_ib_device_async_event_register(EvState, op[t].event, put_ok)
          IN /\ Store(r.st)
             /\ status' = [status EXCEPT ![t] = r.status]
    /\ trace' = [trace EXCEPT ![op[t].event] = <<>>]
    /\ pc' = [pc EXCEPT ![t] = "rel"]
    /\ UNCHANGED <<ahvars, fnvars>>
    /\ UNCHANGED <<async_event_lock, op, registered, late, fatal_ran>>

Wait(t) ==
    /\ pc[t] = "cs" /\ op[t].name = "wait"
    /\ LET r == uct_ib_device_async_event_wait(EvState, op[t].event,
                                               op[t].wait_ctx)
       IN /\ r.st.ncb <= MaxCbId
          /\ Store(r.st)
          /\ status' = [status EXCEPT ![t] = r.status]
          /\ trace' = IF r.status = "UCS_OK"
                      THEN Logged(trace, async_events_hash, {op[t].event}, "wait")
                      ELSE trace
    /\ pc' = [pc EXCEPT ![t] = "rel"]
    /\ UNCHANGED <<ahvars, fnvars>>
    /\ UNCHANGED <<async_event_lock, op, registered, late, fatal_ran>>

Unregister(t) ==
    /\ pc[t] = "cs" /\ op[t].name = "unregister"
    /\ LET r == uct_ib_device_async_event_unregister(EvState, op[t].event)
       IN Store([r EXCEPT !.cbq = Cancelled(r.cbq, op[t].event),
                          !.nsched[op[t].event] = 0])
    /\ status' = [status EXCEPT ![t] = "UCS_OK"]
    /\ trace' = [trace EXCEPT ![op[t].event] = <<>>]
    /\ pc' = [pc EXCEPT ![t] = "rel"]
    /\ UNCHANGED <<ahvars, fnvars>>
    /\ UNCHANGED <<async_event_lock, op, registered, late, fatal_ran>>

Dispatch(t) ==
    /\ pc[t] = "cs" /\ op[t].name = "dispatch"
    /\ LET r == uct_ib_device_async_event_dispatch_nolock(EvState, op[t].event)
       IN /\ r.ncb <= MaxCbId
          /\ Store(r)
    /\ status' = [status EXCEPT ![t] = "UCS_OK"]
    /\ trace' = Logged(trace, async_events_hash, {op[t].event}, "dispatch")
    /\ pc' = [pc EXCEPT ![t] = "rel"]
    /\ UNCHANGED <<ahvars, fnvars>>
    /\ UNCHANGED <<async_event_lock, op, registered, late, fatal_ran>>

DispatchFatal(t) ==
    /\ pc[t] = "cs" /\ op[t].name = "dispatch_fatal"
    /\ \E order \in Orders(DOMAIN async_events_hash) :
          LET r == uct_ib_device_async_event_dispatch_fatal(EvState, order)
          IN /\ r.ncb <= MaxCbId
             /\ Store(r)
    /\ status' = [status EXCEPT ![t] = "UCS_OK"]
    /\ trace' = Logged(trace, async_events_hash, Keys, "dispatch_fatal")
    /\ fatal_ran' = TRUE
    /\ pc' = [pc EXCEPT ![t] = "rel"]
    /\ UNCHANGED <<ahvars, fnvars>>
    /\ UNCHANGED <<async_event_lock, op, registered, late>>

\* ucs_spin_unlock(&dev->async_event_lock) and the return to the caller
Unlock(t) ==
    /\ pc[t] = "rel"
    /\ async_event_lock' = NoThread
    /\ pc' = [pc EXCEPT ![t] = "idle"]
    /\ op' = [op EXCEPT ![t] = NoOp]
    /\ status' = [status EXCEPT ![t] = "none"]
    /\ registered' =
          IF op[t].name = "register" /\ status[t] = "UCS_OK"
          THEN registered \cup {op[t].event}
          ELSE IF op[t].name = "unregister"
               THEN registered \ {op[t].event}
               ELSE registered
    /\ UNCHANGED <<ahvars, fnvars>>
    /\ UNCHANGED <<async_events_hash, cb_id, cbq, ncb, dev_failed, trace,
                   nsched, late, fatal_ran, assert_failed>>

\* the callback queue invokes a queued callback (added with flags 0, it stays
\* queued until it is removed)
Deliver(id) ==
    /\ id \in DOMAIN cbq
    /\ late' = (late \/ cbq[id].cancelled)
    /\ trace' = IF cbq[id].cancelled
                THEN trace
                ELSE Logged(trace, async_events_hash, {cbq[id].event}, "deliver")
    /\ UNCHANGED <<ahvars, fnvars>>
    /\ UNCHANGED <<async_events_hash, cb_id, cbq, ncb, dev_failed,
                   async_event_lock, pc, op, status, registered, nsched,
                   fatal_ran, assert_failed>>

EvInit ==
    /\ async_events_hash = <<>>
    /\ cb_id \in [WaitCtxs -> {UCS_CALLBACKQ_ID_NULL, MaxCbId}]
    /\ cbq = <<>>
    /\ ncb = 0
    /\ dev_failed = FALSE
    /\ async_event_lock = NoThread
    /\ pc = [t \in Threads |-> "idle"]
    /\ op = [t \in Threads |-> NoOp]
    /\ status = [t \in Threads |-> "none"]
    /\ registered = {}
    /\ trace = [k \in Keys |-> <<>>]
    /\ nsched = [k \in Keys |-> 0]
    /\ late = FALSE
    /\ fatal_ran = FALSE
    /\ assert_failed = FALSE

(***************************************************************************)
(* The address-handle cache                                                *)
(***************************************************************************)
\* uct_ib_kh_ah_hash_func: the fields the hash is computed from
uct_ib_kh_ah_hash_func(attr) == <<attr.dgid, attr.dlid>>

\* faulty variant: the comparison looks at the hashed fields alone
ah_equal_hashed_fields_only(a, b) ==
    /\ a.dgid = b.dgid
    /\ a.dlid = b.dlid

\* uct_ib_kh_ah_hash_equal: memcmp of the two attribute records (a record of
\* the model stands for all the bytes of the struct that are compared)
uct_ib_kh_ah_hash_equal(a, b) ==
    /\ a.dgid = b.dgid
    /\ a.dlid = b.dlid
    /\ a.sl = b.sl

\* kh_get(uct_ib_ah, hash, attr): the stored key equal to attr, within the
\* keys of the same hash value
kh_get_ah(hash, attr) ==
    LET same == {k \in DOMAIN hash :
                    /\ uct_ib_kh_ah_hash_func(k) = uct_ib_kh_ah_hash_func(attr)
                    /\ uct_ib_kh_ah_hash_equal(k, attr)}
    IN IF same # {} THEN CHOOSE k \in same : TRUE ELSE NoAttr

\* faulty variant: the insertion evicts the other entries of the table
kh_put_ah_evicts(hash, attr, ah) ==
    [k \in {attr} |-> ah]

\* kh_put followed by the assignment of the value
kh_put_ah(hash, attr, ah) ==
    [k \in (DOMAIN hash) \cup {attr} |-> IF k = attr THEN ah ELSE hash[k]]

\* faulty variant: the lock excludes nobody
spin_lock_not_exclusive(lock, t) == TRUE

\* ucs_recursive_spin_lock can be taken: the lock is free or held by t
ucs_recursive_spin_lock(lock, t) ==
    lock.count = 0 \/ lock.owner = t

\* a thread enters uct_ib_device_create_ah_cached(attr)
AhCall(t, attr) ==
    /\ ah_pc[t] = "idle"
    /\ ah_pc' = [ah_pc EXCEPT ![t] = "lock"]
    /\ ah_call' = [ah_call EXCEPT ![t] =
                       [attr |-> attr, ah_p |-> NoAh, status |-> "UCS_OK",
                        errno |-> "none"]]
    /\ ah_raced' =
          IF /\ attr \notin DOMAIN ah_hash
             /\ \E u \in AhThreads \ {t} :
                   ah_pc[u] # "idle" /\ ah_call[u].attr = attr
          THEN ah_raced \cup {attr}
          ELSE ah_raced
    /\ UNCHANGED <<ah_hash, ah_lock, ah_live, ah_for, ah_ncreate,
                   ah_create_failed, ah_put_failed, ah_given>>
    /\ UNCHANGED <<evvars, fnvars>>

\* ucs_recursive_spin_lock(&dev->ah_lock): the thread spins until it has it
AhLock(t) ==
    /\ ah_pc[t] = "lock"
    /\ ucs_recursive_spin_lock(ah_lock, t)
    /\ ah_lock' = [owner |-> t, count |-> ah_lock.count + 1]
    /\ ah_pc' = [ah_pc EXCEPT ![t] = "get"]
    /\ UNCHANGED <<ah_hash, ah_call, ah_live, ah_for, ah_ncreate,
                   ah_create_failed, ah_put_failed, ah_given, ah_raced>>
    /\ UNCHANGED <<evvars, fnvars>>

\* kh_get: an existing handle is returned, a new one is to be created
AhGet(t) ==
    /\ ah_pc[t] = "get"
    /\ LET iter == kh_get_ah(ah_hash, ah_call[t].attr)
       IN IF iter = NoAttr
          THEN /\ ah_pc' = [ah_pc EXCEPT ![t] = "create"]
               /\ UNCHANGED ah_call
          ELSE /\ ah_pc' = [ah_pc EXCEPT ![t] = "unlock"]
               /\ ah_call' = [ah_call EXCEPT ![t].ah_p = ah_hash[iter]]
    /\ UNCHANGED <<ah_hash, ah_lock, ah_live, ah_for, ah_ncreate,
                   ah_create_failed, ah_put_failed, ah_given, ah_raced>>
    /\ UNCHANGED <<evvars, fnvars>>

\* faulty variant: every failure of ibv_create_ah is reported as a bad address
create_error_without_errno(errno) == "UCS_ERR_INVALID_ADDR"

\* the status uct_ib_device_create_ah returns when ibv_create_ah fails
CreateAhError(errno) ==
    IF errno = "ETIMEDOUT" THEN "UCS_ERR_ENDPOINT_TIMEOUT"
    ELSE "UCS_ERR_INVALID_ADDR"

\* uct_ib_device_create_ah: ibv_create_ah returns a new handle or fails
AhCreate(t) ==
    /\ ah_pc[t] = "create"
    /\ \/ \E ah \in Handles \ ah_live :
             /\ ah_ncreate[ah_call[t].attr] < MaxAhCreate
             /\ ah_live' = ah_live \cup {ah}
             /\ ah_for' = [ah_for EXCEPT ![ah] = ah_call[t].attr]
             /\ ah_ncreate' = [ah_ncreate EXCEPT ![ah_call[t].attr] = @ + 1]
             /\ ah_call' = [ah_call EXCEPT ![t].ah_p = ah]
             /\ ah_pc' = [ah_pc EXCEPT ![t] = "put"]
             /\ UNCHANGED ah_create_failed
       \/ \E errno \in {"ETIMEDOUT", "EINVAL"} :
             /\ ah_call' = [ah_call EXCEPT ![t].status = CreateAhError(errno),
                                           ![t].errno = errno]
             /\ ah_create_failed' = TRUE
             /\ ah_pc' = [ah_pc EXCEPT ![t] = "unlock"]
             /\ UNCHANGED <<ah_live, ah_for, ah_ncreate>>
    /\ UNCHANGED <<ah_hash, ah_lock, ah_given, ah_raced, ah_put_failed>>
    /\ UNCHANGED <<evvars, fnvars>>

\* faulty variant: the rollback does not destroy the handle
put_failed_without_destroy(live, ah) == live

\* what is left of the handle when kh_put failed: ibv_destroy_ah(*ah_p)
PutFailed(live, ah) == live \ {ah}

\* kh_put: the handle is stored, or destroyed when the table cannot grow
AhPut(t) ==
    /\ ah_pc[t] = "put"
    /\ \/ /\ ah_hash' = kh_put_ah(ah_hash, ah_call[t].attr, ah_call[t].ah_p)
          /\ UNCHANGED <<ah_live, ah_call, ah_put_failed>>
       \/ /\ ah_live' = PutFailed(ah_live, ah_call[t].ah_p)
          /\ ah_call' = [ah_call EXCEPT ![t].status = "UCS_ERR_NO_MEMORY"]
          /\ ah_put_failed' = TRUE
          /\ UNCHANGED ah_hash
    /\ ah_for' = [h \in Handles |-> IF h \in ah_live' THEN ah_for[h] ELSE NoAttr]
    /\ ah_pc' = [ah_pc EXCEPT ![t] = "unlock"]
    /\ UNCHANGED <<ah_lock, ah_ncreate, ah_given, ah_raced, ah_create_failed>>
    /\ UNCHANGED <<evvars, fnvars>>

\* faulty variant: a call that failed returns without releasing the lock
unlock_skipped_on_error(t) ==
    /\ ah_pc[t] = "unlock"
    /\ ah_lock' = IF ah_lock.owner = t /\ ah_call[t].status = "UCS_OK"
                  THEN IF ah_lock.count > 1
                       THEN [ah_lock EXCEPT !.count = @ - 1]
                       ELSE [owner |-> 0, count |-> 0]
                  ELSE ah_lock
    /\ ah_given' = IF ah_call[t].status = "UCS_OK"
                   THEN [ah_given EXCEPT ![ah_call[t].attr] =
                                             @ \cup {<<t, ah_call[t].ah_p>>}]
                   ELSE ah_given
    /\ ah_call' = [ah_call EXCEPT ![t] = NoCall]
    /\ ah_pc' = [ah_pc EXCEPT ![t] = "idle"]
    /\ UNCHANGED <<ah_hash, ah_live, ah_for, ah_ncreate, ah_create_failed,
                   ah_put_failed, ah_raced>>
    /\ UNCHANGED <<evvars, fnvars>>

\* ucs_recursive_spin_unlock(&dev->ah_lock) and the return to the caller
AhUnlock(t) ==
    /\ ah_pc[t] = "unlock"
    /\ ah_lock' = IF ah_lock.owner = t
                  THEN IF ah_lock.count > 1
                       THEN [ah_lock EXCEPT !.count = @ - 1]
                       ELSE [owner |-> 0, count |-> 0]
                  ELSE ah_lock
    /\ ah_given' = IF ah_call[t].status = "UCS_OK"
                   THEN [ah_given EXCEPT ![ah_call[t].attr] =
                                             @ \cup {<<t, ah_call[t].ah_p>>}]
                   ELSE ah_given
    /\ ah_call' = [ah_call EXCEPT ![t] = NoCall]
    /\ ah_pc' = [ah_pc EXCEPT ![t] = "idle"]
    /\ UNCHANGED <<ah_hash, ah_live, ah_for, ah_ncreate, ah_create_failed,
                   ah_put_failed, ah_raced>>
    /\ UNCHANGED <<evvars, fnvars>>

AhInit ==
    /\ ah_hash = <<>>
    /\ ah_lock = [owner |-> 0, count |-> 0]
    /\ ah_pc = [t \in AhThreads |-> "idle"]
    /\ ah_call = [t \in AhThreads |-> NoCall]
    /\ ah_given = [a \in AhAttrs |-> {}]
    /\ ah_raced = {}
    /\ ah_live = {}
    /\ ah_for = [h \in Handles |-> NoAttr]
    /\ ah_ncreate = [a \in AhAttrs |-> 0]
    /\ ah_create_failed = FALSE
    /\ ah_put_failed = FALSE

(***************************************************************************)
(* GID selection                                                           *)
(***************************************************************************)
\* the gid index used by default for a port
UCT_IB_MD_DEFAULT_GID_INDEX == 0

\* the configuration value "auto" of md->config.gid_index, (size_t)-2
UCS_ULUNITS_AUTO == -2

\* strncmp(buf, str, strlen(str)) == 0
strncmp_eq(buf, str) ==
    /\ Len(buf) >= Len(str)
    /\ SubSeq(buf, 1, Len(str)) = str

\* uct_ib_device_is_addr_ipv4_mcast, addr_last_bits_zero: addr_last_bits == 0
uct_ib_device_is_addr_ipv4_mcast(raw, addr_last_bits_zero) ==
    /\ raw[1] = Word32(65294, 0)
    /\ raw[2] = Word32(0, 0) /\ addr_last_bits_zero

\* uct_ib_device_get_addr_family; s6_addr32[2] ^ htonl(0x0000ffff) is zero
\* exactly when the third word is 0x0000ffff
uct_ib_device_get_addr_family(raw) ==
    LET addr_last_bits_zero == (raw[3] = Word32(0, 65535))
    IN IF \/ /\ raw[1] = Word32(0, 0)
             /\ raw[2] = Word32(0, 0)
             /\ addr_last_bits_zero
          \/ uct_ib_device_is_addr_ipv4_mcast(raw, addr_last_bits_zero)
       THEN "AF_INET"
       ELSE "AF_INET6"

\* faulty variant: a type string that is not recognised counts as RoCE v1
query_gid_info_ignores_type_error(entry, gid_index) ==
    IF ~entry.query_ok
    THEN [status |-> "UCS_ERR_INVALID_PARAM", ver |-> "none",
          addr_family |-> "none", gid_index |-> "none"]
    ELSE [status |-> "UCS_OK",
          ver |-> IF strncmp_eq(entry.type,
                                <<"R", "o", "C", "E", " ", "v", "2">>)
                  THEN "UCT_IB_DEVICE_ROCE_V2"
                  ELSE "UCT_IB_DEVICE_ROCE_V1",
          addr_family |-> uct_ib_device_get_addr_family(entry.gid),
          gid_index |-> gid_index]

\* uct_ib_device_query_gid_info on table entry "entry" at index gid_index:
\* the status and what is written to *info
uct_ib_device_query_gid_info(entry, gid_index) ==
    LET failed == [status |-> "UCS_ERR_INVALID_PARAM", ver |-> "none",
                   addr_family |-> "none", gid_index |-> "none"]
        ret == Len(entry.type)
        ver == IF ret > 0
               THEN IF strncmp_eq(entry.type, <<"I", "B", "/", "R", "o", "C",
                                               "E", " ", "v", "1">>)
                    THEN "UCT_IB_DEVICE_ROCE_V1"
                    ELSE IF strncmp_eq(entry.type,
                                       <<"R", "o", "C", "E", " ", "v", "2">>)
                         THEN "UCT_IB_DEVICE_ROCE_V2"
                         ELSE "none"
               ELSE "UCT_IB_DEVICE_ROCE_V1"
    IN IF ~entry.query_ok \/ ver = "none"
       THEN failed
       ELSE [status |-> "UCS_OK", ver |-> ver,
             addr_family |-> uct_ib_device_get_addr_family(entry.gid),
             gid_index |-> gid_index]

\* faulty variant: the probe counts every entry as operational
test_roce_gid_index_always_up(entry) == TRUE

\* uct_ib_device_test_roce_gid_index: ibv_create_ah for the entry succeeds
uct_ib_device_test_roce_gid_index(entry) == entry.live

\* faulty variant: the probe keeps the handle it has created
probe_keeps_handle(live, entry) ==
    IF entry.live
    THEN live \cup {CHOOSE ah \in Handles \ live : TRUE}
    ELSE live

\* the handles alive after uct_ib_device_test_roce_gid_index: ibv_create_ah
\* returns a new handle or NULL, and ibv_destroy_ah destroys the new handle
TestRoceGidHandles(live, entry) ==
    IF entry.live
    THEN LET ah == CHOOSE h \in Handles \ live : TRUE
         IN (live \cup {ah}) \ {ah}
    ELSE live

\* faulty variant: the RoCE v1 tiers come first
roce_prio_v1_first ==
    << [ver |-> "UCT_IB_DEVICE_ROCE_V1", addr_family |-> "AF_INET"],
       [ver |-> "UCT_IB_DEVICE_ROCE_V1", addr_family |-> "AF_INET6"],
       [ver |-> "UCT_IB_DEVICE_ROCE_V2", addr_family |-> "AF_INET"],
       [ver |-> "UCT_IB_DEVICE_ROCE_V2", addr_family |-> "AF_INET6"] >>

\* roce_prio[] of uct_ib_device_select_gid (prio_idx counts from 0)
roce_prio ==
    << [ver |-> "UCT_IB_DEVICE_ROCE_V2", addr_family |-> "AF_INET"],
       [ver |-> "UCT_IB_DEVICE_ROCE_V2", addr_family |-> "AF_INET6"],
       [ver |-> "UCT_IB_DEVICE_ROCE_V1", addr_family |-> "AF_INET"],
       [ver |-> "UCT_IB_DEVICE_ROCE_V1", addr_family |-> "AF_INET6"] >>

priorities_arr_len == Len(roce_prio)

gid_tbl_len == Len(gid_tbl)

\* select_gid is called: the two loops start
SelectGidCall ==
    /\ gid_pc = "idle"
    /\ gid_pc' = "loop"
    /\ prio_idx' = 0
    /\ gid_i' = 0
    /\ gid_status' = "UCS_OK"
    /\ UNCHANGED <<gid_tbl, gid_info, gid_log>>
    /\ UNCHANGED <<evvars, ahvars, specvars, portvars, morevars>>

\* one iteration of the inner loop: entry i is queried and, when it is of
\* the tier prio_idx, probed
SelectGidEntry ==
    /\ gid_pc = "loop"
    /\ prio_idx < priorities_arr_len
    /\ gid_i < gid_tbl_len
    /\ LET entry == gid_tbl[gid_i + 1]
           gid_info_tmp == uct_ib_device_query_gid_info(entry, gid_i)
           tier == (roce_prio[prio_idx + 1].ver = gid_info_tmp.ver)
                   /\ (roce_prio[prio_idx + 1].addr_family =
                           gid_info_tmp.addr_family)
       IN IF gid_info_tmp.status # "UCS_OK"
          THEN /\ gid_status' = gid_info_tmp.status
               /\ gid_pc' = "out"
               /\ gid_log' = Append(gid_log, <<"query", gid_i>>)
               /\ UNCHANGED <<gid_info, gid_i>>
          ELSE IF tier /\ uct_ib_device_test_roce_gid_index(entry)
               THEN /\ gid_info' = [gid_index |-> gid_i,
                                    ver |-> gid_info_tmp.ver,
                                    addr_family |-> gid_info_tmp.addr_family]
                    /\ gid_status' = gid_info_tmp.status
                    /\ gid_pc' = "out"
                    /\ gid_log' = gid_log \o <<(<<"query", gid_i>>),
                                                (<<"probe", gid_i>>)>>
                    /\ UNCHANGED gid_i
               ELSE /\ gid_i' = gid_i + 1
                    /\ gid_status' = gid_info_tmp.status
                    /\ gid_log' =
                          IF tier
                          THEN gid_log \o <<(<<"query", gid_i>>),
                                            (<<"probe", gid_i>>)>>
                          ELSE Append(gid_log, <<"query", gid_i>>)
                    /\ UNCHANGED <<gid_info, gid_pc>>
    /\ ah_live' =
          LET entry == gid_tbl[gid_i + 1]
              gid_info_tmp == uct_ib_device_query_gid_info(entry, gid_i)
          IN IF /\ gid_info_tmp.status = "UCS_OK"
                /\ roce_prio[prio_idx + 1].ver = gid_info_tmp.ver
                /\ roce_prio[prio_idx + 1].addr_family =
                       gid_info_tmp.addr_family
             THEN TestRoceGidHandles(ah_live, entry)
             ELSE ah_live
    /\ UNCHANGED <<ah_hash, ah_lock, ah_pc, ah_call, ah_given, ah_raced,
                   ah_for, ah_ncreate, ah_create_failed, ah_put_failed>>
    /\ UNCHANGED <<gid_tbl, prio_idx>>
    /\ UNCHANGED <<evvars, specvars, portvars, morevars>>

\* the inner loop is over: the outer loop goes to the next tier
SelectGidNextPrio ==
    /\ gid_pc = "loop"
    /\ prio_idx < priorities_arr_len
    /\ gid_i >= gid_tbl_len
    /\ prio_idx' = prio_idx + 1
    /\ gid_i' = 0
    /\ UNCHANGED <<gid_tbl, gid_pc, gid_info, gid_status, gid_log>>
    /\ UNCHANGED <<evvars, ahvars, specvars, portvars, morevars>>

\* both loops are over: the default is written
SelectGidDefault ==
    /\ gid_pc = "loop"
    /\ prio_idx >= priorities_arr_len
    /\ gid_info' = [gid_index |-> UCT_IB_MD_DEFAULT_GID_INDEX,
                    ver |-> "UCT_IB_DEVICE_ROCE_V1",
                    addr_family |-> "AF_INET"]
    /\ gid_pc' = "out"
    /\ UNCHANGED <<gid_tbl, prio_idx, gid_i, gid_status, gid_log>>
    /\ UNCHANGED <<evvars, ahvars, specvars, portvars, morevars>>

\* no select_gid call on the port (the other specifications)
GidIdle ==
    /\ gid_tbl = <<>>
    /\ gid_pc = "idle"
    /\ prio_idx = 0
    /\ gid_i = 0
    /\ gid_info = GidInfoUnwritten
    /\ gid_status = "none"
    /\ gid_log = <<>>

\* a port with some GID table, before select_gid is called
GidInit ==
    /\ gid_tbl \in GidTables
    /\ gid_pc = "idle"
    /\ prio_idx = 0
    /\ gid_i = 0
    /\ gid_info = GidInfoUnwritten
    /\ gid_status = "none"
    /\ gid_log = <<>>

(***************************************************************************)
(* The device catalog                                                      *)
(***************************************************************************)
\* a uct_ib_device_spec_t; flags as the set of the UCT_IB_DEVICE_FLAG_ bits
DevSpec(name, vendor, device, flags, priority) ==
    [name |-> name, pci_id |-> [vendor |-> vendor, device |-> device],
     flags |-> flags, priority |-> priority]

MLX4 == {"UCT_IB_DEVICE_FLAG_MELLANOX", "UCT_IB_DEVICE_FLAG_MLX4_PRM"}

MLX5_DC_V1 == {"UCT_IB_DEVICE_FLAG_MELLANOX", "UCT_IB_DEVICE_FLAG_MLX5_PRM",
               "UCT_IB_DEVICE_FLAG_DC_V1"}

MLX5_DC_V2 == {"UCT_IB_DEVICE_FLAG_MELLANOX", "UCT_IB_DEVICE_FLAG_MLX5_PRM",
               "UCT_IB_DEVICE_FLAG_DC_V2"}

\* uct_ib_builtin_device_specs[], the {NULL} terminator included
\* (0x15b3 = 5555, 0xa2d2 = 41682, 0xa2d3 = 41683, 0xa2d6 = 41686)
uct_ib_builtin_device_specs ==
    << DevSpec("ConnectX-3", 5555, 4099, MLX4, 10),
       DevSpec("ConnectX-3 Pro", 5555, 4103, MLX4, 11),
       DevSpec("Connect-IB", 5555, 4113, MLX5_DC_V1, 20),
       DevSpec("ConnectX-4", 5555, 4115, MLX5_DC_V1, 30),
       DevSpec("ConnectX-4", 5555, 4116, MLX5_DC_V1, 29),
       DevSpec("ConnectX-4 LX", 5555, 4117, MLX5_DC_V1, 28),
       DevSpec("ConnectX-4 LX VF", 5555, 4118, MLX5_DC_V1, 28),
       DevSpec("ConnectX-5", 5555, 4119, MLX5_DC_V2, 38),
       DevSpec("ConnectX-5", 5555, 4121, MLX5_DC_V2, 40),
       DevSpec("ConnectX-5", 5555, 4120, MLX5_DC_V2, 39),
       DevSpec("ConnectX-5", 5555, 41682, MLX5_DC_V2, 37),
       DevSpec("ConnectX-5", 5555, 4122, MLX5_DC_V2, 36),
       DevSpec("ConnectX-6", 5555, 4123, MLX5_DC_V2, 50),
       DevSpec("ConnectX-6 VF", 5555, 4124, MLX5_DC_V2, 50),
       DevSpec("ConnectX-6 DX", 5555, 4125, MLX5_DC_V2, 60),
       DevSpec("ConnectX-6 DX VF", 5555, 4126, MLX5_DC_V2, 60),
       DevSpec("ConnectX-6 LX", 5555, 4127, MLX5_DC_V2, 45),
       DevSpec("ConnectX-7", 5555, 4129, MLX5_DC_V2, 70),
       DevSpec("BlueField", 5555, 41682, MLX5_DC_V2, 41),
       DevSpec("BlueField VF", 5555, 41683, MLX5_DC_V2, 41),
       DevSpec("BlueField 2", 5555, 41686, MLX5_DC_V2, 61),
       DevSpec("Generic HCA", 0, 0, {}, 0),
       DevSpec(NULL, 0, 0, {}, 0) >>

\* entries a configuration may put on the custom list
CustomSpecs ==
    { DevSpec("custom-cx3", 5555, 4099, {"UCT_IB_DEVICE_FLAG_MLX5_PRM"}, 90),
      DevSpec("custom-cx3-b", 5555, 4099, {}, 91),
      DevSpec("custom-hca", 4660, 1, {"UCT_IB_DEVICE_FLAG_MLX4_PRM"}, 5) }

\* the custom lists of a configuration
CustomLists == UNION { [1..n -> CustomSpecs] : n \in 0..MaxCustom }

\* PCI ids of devices: three of the built-in table (the third one is there
\* twice), one known to custom entries alone, the one of "Generic HCA", and
\* an unknown one
PciIds ==
    { [vendor |-> 5555, device |-> 4099], [vendor |-> 5555, device |-> 4123],
      [vendor |-> 5555, device |-> 41682], [vendor |-> 4660, device |-> 1],
      [vendor |-> 0, device |-> 0], [vendor |-> 4660, device |-> 2] }

\* no entry (before the lookup)
NoSpec == [list |-> "none", index |-> 0, spec |-> DevSpec(NULL, 0, 0, {}, 0)]

\* uct_ib_device_spec_match
uct_ib_device_spec_match(pci_id, spec) ==
    /\ spec.pci_id.vendor = pci_id.vendor
    /\ spec.pci_id.device = pci_id.device

\* the for loop over md->custom_devices.specs: the position (from 1) at which
\* it returns, Len(custom) + 1 when it runs to the end
RECURSIVE CustomScan(_, _, _)
CustomScan(pci_id, custom, spec) ==
    IF spec > Len(custom) \/ uct_ib_device_spec_match(pci_id, custom[spec])
    THEN spec
    ELSE CustomScan(pci_id, custom, spec + 1)

\* the while loop over uct_ib_builtin_device_specs: the position (from 1) at
\* which it stops
RECURSIVE BuiltinScan(_, _)
BuiltinScan(pci_id, spec) ==
    IF /\ uct_ib_builtin_device_specs[spec].name # NULL
       /\ ~uct_ib_device_spec_match(pci_id, uct_ib_builtin_device_specs[spec])
    THEN BuiltinScan(pci_id, spec + 1)
    ELSE spec

\* faulty variant: the built-in table is searched before the custom list
device_spec_builtin_first(pci_id, custom) ==
    LET b == BuiltinScan(pci_id, 1)
        c == CustomScan(pci_id, custom, 1)
    IN IF uct_ib_builtin_device_specs[b].name # NULL \/ c > Len(custom)
       THEN [list |-> "builtin", index |-> b - 1,
             spec |-> uct_ib_builtin_device_specs[b]]
       ELSE [list |-> "custom", index |-> c - 1, spec |-> custom[c]]

\* uct_ib_device_spec: the entry returned, with the list it is in and its
\* index there
uct_ib_device_spec(pci_id, custom) ==
    LET c == CustomScan(pci_id, custom, 1)
        b == BuiltinScan(pci_id, 1)
    IN IF c <= Len(custom)
       THEN [list |-> "custom", index |-> c - 1, spec |-> custom[c]]
       ELSE [list |-> "builtin", index |-> b - 1,
             spec |-> uct_ib_builtin_device_specs[b]]

\* a call of uct_ib_device_spec(dev)
DeviceSpec ==
    /\ spec_ret = NoSpec
    /\ spec_ret' = uct_ib_device_spec(dev_pci_id, custom_devices)
    /\ UNCHANGED <<custom_devices, dev_pci_id>>
    /\ UNCHANGED <<evvars, ahvars, gidvars, portvars, morevars>>

\* no lookup (the other specifications)
SpecIdle ==
    /\ custom_devices = <<>>
    /\ dev_pci_id = [vendor |-> 0, device |-> 0]
    /\ spec_ret = NoSpec

\* a device and a configuration, before the lookup
SpecInit ==
    /\ custom_devices \in CustomLists
    /\ dev_pci_id \in PciIds
    /\ spec_ret = NoSpec

(***************************************************************************)
(* The port check                                                          *)
(***************************************************************************)
\* the all-zero gid
GidZero == <<Word32(0, 0), Word32(0, 0), Word32(0, 0), Word32(0, 0)>>

\* gid.global.subnet_prefix: the first 64 bits
subnet_prefix(raw) == <<raw[1], raw[2]>>

\* what the GID table of a checked port may hold at an index: an entry that
\* cannot be queried, an all-zero gid, gids of two subnets, an entry with an
\* unknown type string
PortGidEntries ==
    { [query_ok |-> FALSE, gid |-> GidIPv6, type |-> GidTypeNone, live |-> FALSE],
      [query_ok |-> TRUE, gid |-> GidZero, type |-> GidTypeNone, live |-> FALSE],
      [query_ok |-> TRUE, gid |-> GidIPv6, type |-> GidTypeNone, live |-> FALSE],
      [query_ok |-> TRUE, gid |-> GidIPv4, type |-> GidTypeV1, live |-> FALSE],
      [query_ok |-> TRUE, gid |-> GidIPv6, type |-> GidTypeV15, live |-> FALSE] }

\* the flags a caller may require
PortFlags == {"UCT_IB_DEVICE_FLAG_LINK_IB", "UCT_IB_DEVICE_FLAG_DC",
              "UCT_IB_DEVICE_FLAG_MLX4_PRM", "UCT_IB_DEVICE_FLAG_MLX5_PRM"}

\* the arguments of a port check: device, port attributes, configuration
PortArgs ==
    [ port_num : {0, 1, 3},
      first_port : {1},
      num_ports : {2},
      gid_tbl : {<<>>} \cup { <<e>> : e \in PortGidEntries },
      state : {"IBV_PORT_ACTIVE", "IBV_PORT_DOWN"},
      transport_type : {"IBV_TRANSPORT_IB", "IBV_TRANSPORT_IWARP"},
      link_layer : {"IBV_LINK_LAYER_INFINIBAND", "IBV_LINK_LAYER_ETHERNET"},
      has_dc : BOOLEAN,
      pci_id : { [vendor |-> 5555, device |-> 4099],
                 [vendor |-> 5555, device |-> 4123] },
      gid_index : {UCS_ULUNITS_AUTO, 1},
      check_subnet_filter : BOOLEAN,
      subnet_filter : {subnet_prefix(GidIPv6), subnet_prefix(GidIPv4)},
      flags : SUBSET PortFlags ]

NoPortArgs ==
    [ port_num |-> 0, first_port |-> 1, num_ports |-> 2, gid_tbl |-> <<>>,
      state |-> "IBV_PORT_DOWN", transport_type |-> "IBV_TRANSPORT_IB",
      link_layer |-> "IBV_LINK_LAYER_INFINIBAND", has_dc |-> FALSE,
      pci_id |-> [vendor |-> 0, device |-> 0],
      gid_index |-> UCS_ULUNITS_AUTO, check_subnet_filter |-> FALSE,
      subnet_filter |-> subnet_prefix(GidZero), flags |-> {} ]

\* uct_ib_device_get_ib_gid_index
uct_ib_device_get_ib_gid_index(md) ==
    IF md.gid_index = UCS_ULUNITS_AUTO
    THEN UCT_IB_MD_DEFAULT_GID_INDEX
    ELSE md.gid_index

\* uct_ib_device_is_iwarp
uct_ib_device_is_iwarp(dev) == dev.transport_type = "IBV_TRANSPORT_IWARP"

\* uct_ib_device_is_port_ib
uct_ib_device_is_port_ib(dev) == dev.link_layer = "IBV_LINK_LAYER_INFINIBAND"

\* uct_ib_device_is_gid_raw_empty
uct_ib_device_is_gid_raw_empty(gid_raw) ==
    /\ gid_raw[1] = Word32(0, 0) /\ gid_raw[2] = Word32(0, 0)
    /\ gid_raw[3] = Word32(0, 0) /\ gid_raw[4] = Word32(0, 0)

\* the table entry ibv_query_gid is asked for: an index past the table
\* cannot be queried
PortGidEntry(tbl, gid_index) ==
    IF gid_index < Len(tbl)
    THEN tbl[gid_index + 1]
    ELSE [query_ok |-> FALSE, gid |-> GidZero, type |-> GidTypeNone,
          live |-> FALSE]

\* uct_ib_device_query_gid: the status and the gid written on success
uct_ib_device_query_gid(tbl, gid_index) ==
    LET entry == PortGidEntry(tbl, gid_index)
        info == uct_ib_device_query_gid_info(entry, gid_index)
    IN IF info.status # "UCS_OK"
       THEN [status |-> info.status, gid |-> GidZero]
       ELSE IF uct_ib_device_is_gid_raw_empty(entry.gid)
            THEN [status |-> "UCS_ERR_INVALID_ADDR", gid |-> GidZero]
            ELSE [status |-> "UCS_OK", gid |-> entry.gid]

\* ucs_test_all_flags
ucs_test_all_flags(value, mask) == mask \subseteq value

\* faulty variant: the port state is tested before the GID table length
port_check_state_before_gid_table(a) ==
    LET dev_info == uct_ib_device_spec(a.pci_id, <<>>).spec
        required_dev_flags == a.flags \cap {"UCT_IB_DEVICE_FLAG_MLX4_PRM",
                                            "UCT_IB_DEVICE_FLAG_MLX5_PRM"}
        q == uct_ib_device_query_gid(a.gid_tbl,
                                     uct_ib_device_get_ib_gid_index(a))
    IN IF a.port_num < a.first_port \/ a.port_num >= a.first_port + a.num_ports
       THEN "UCS_ERR_NO_DEVICE"
       ELSE IF a.state # "IBV_PORT_ACTIVE"
       THEN "UCS_ERR_UNREACHABLE"
       ELSE IF Len(a.gid_tbl) = 0
       THEN "UCS_ERR_UNSUPPORTED"
       ELSE IF uct_ib_device_is_iwarp(a)
       THEN "UCS_ERR_UNSUPPORTED"
       ELSE IF ~uct_ib_device_is_port_ib(a)
               /\ "UCT_IB_DEVICE_FLAG_LINK_IB" \in a.flags
       THEN "UCS_ERR_UNSUPPORTED"
       ELSE IF "UCT_IB_DEVICE_FLAG_DC" \in a.flags /\ ~a.has_dc
       THEN "UCS_ERR_UNSUPPORTED"
       ELSE IF ~ucs_test_all_flags(dev_info.flags, required_dev_flags)
       THEN "UCS_ERR_UNSUPPORTED"
       ELSE IF q.status # "UCS_OK"
       THEN q.status
       ELSE IF /\ a.check_subnet_filter
               /\ uct_ib_device_is_port_ib(a)
               /\ a.subnet_filter # subnet_prefix(q.gid)
       THEN "UCS_ERR_UNSUPPORTED"
       ELSE "UCS_OK"

\* uct_ib_device_port_check
uct_ib_device_port_check(a) ==
    LET dev_info == uct_ib_device_spec(a.pci_id, <<>>).spec
        required_dev_flags == a.flags \cap {"UCT_IB_DEVICE_FLAG_MLX4_PRM",
                                            "UCT_IB_DEVICE_FLAG_MLX5_PRM"}
        q == uct_ib_device_query_gid(a.gid_tbl,
                                     uct_ib_device_get_ib_gid_index(a))
    IN IF a.port_num < a.first_port \/ a.port_num >= a.first_port + a.num_ports
       THEN "UCS_ERR_NO_DEVICE"
       ELSE IF Len(a.gid_tbl) = 0
       THEN "UCS_ERR_UNSUPPORTED"
       ELSE IF a.state # "IBV_PORT_ACTIVE"
       THEN "UCS_ERR_UNREACHABLE"
       ELSE IF uct_ib_device_is_iwarp(a)
       THEN "UCS_ERR_UNSUPPORTED"
       ELSE IF ~uct_ib_device_is_port_ib(a)
               /\ "UCT_IB_DEVICE_FLAG_LINK_IB" \in a.flags
       THEN "UCS_ERR_UNSUPPORTED"
       ELSE IF "UCT_IB_DEVICE_FLAG_DC" \in a.flags /\ ~a.has_dc
       THEN "UCS_ERR_UNSUPPORTED"
       ELSE IF ~ucs_test_all_flags(dev_info.flags, required_dev_flags)
       THEN "UCS_ERR_UNSUPPORTED"
       ELSE IF q.status # "UCS_OK"
       THEN q.status
       ELSE IF /\ a.check_subnet_filter
               /\ uct_ib_device_is_port_ib(a)
               /\ a.subnet_filter # subnet_prefix(q.gid)
       THEN "UCS_ERR_UNSUPPORTED"
       ELSE "UCS_OK"

\* a call of uct_ib_device_port_check(dev, port_num, flags)
PortCheck ==
    /\ port_status = "none"
    /\ port_status' = uct_ib_device_port_check(port_args)
    /\ UNCHANGED port_args
    /\ UNCHANGED <<evvars, ahvars, gidvars, specvars, morevars>>

\* no port check (the other specifications)
PortIdle ==
    /\ port_args = NoPortArgs
    /\ port_status = "none"

\* a device, a port and a configuration, before the check
PortInit ==
    /\ port_args \in PortArgs
    /\ port_status = "none"

(***************************************************************************)
(* The event handler                                                       *)
(***************************************************************************)
\* the event types uct_ib_async_event_handler copies a QP number for
QpEventTypes ==
    {"QP_FATAL", "QP_REQ_ERR", "QP_ACCESS_ERR", "COMM_EST", "SQ_DRAINED",
     "PATH_MIG", "PATH_MIG_ERR", "QP_LAST_WQE_REACHED"}

\* the event types it copies a CQ or SRQ pointer for
CookieEventTypes == {"CQ_ERR", "SRQ_ERR", "SRQ_LIMIT_REACHED"}

\* the event types it copies a port number for
PortEventTypes ==
    {"DEVICE_FATAL", "PORT_ERR", "PORT_ACTIVE", "GID_CHANGE", "LID_CHANGE",
     "PKEY_CHANGE", "SM_CHANGE", "CLIENT_REREGISTER"}

\* an event type without a case in the switch statements
OtherEventTypes == {"WQ_FATAL"}

\* what ibv_get_async_event may deliver: the type and the element (the QP
\* number, the port number, the pointer)
IbEvents ==
    [event_type : QpEventTypes \cup CookieEventTypes \cup PortEventTypes
                      \cup OtherEventTypes,
     element : {1, 2}]

\* the keys a registry may hold when the handler runs: the two keys of the
\* last-WQE-reached event and a key of another event type
HandlerKeys == Keys \cup {[event_type |-> "QP_FATAL", resource_id |-> 1]}

\* uct_ib_async_event_handler, the first switch: the event handed on; the
\* members of the union share their storage with resource_id, which stays
\* as it was (0 here, it is not read) for a type without a case
HandlerEvent(ibevent) ==
    [event_type |-> ibevent.event_type,
     resource_id |->
         IF ibevent.event_type \in CookieEventTypes THEN ibevent.element
         ELSE IF ibevent.event_type \in QpEventTypes THEN ibevent.element
         ELSE IF ibevent.event_type \in PortEventTypes THEN ibevent.element
         ELSE 0]

\* the log level uct_ib_handle_async_event chooses
HandleLevel(event_type) ==
    IF event_type = "CQ_ERR" THEN "UCS_LOG_LEVEL_ERROR"
    ELSE IF event_type \in {"COMM_EST", "QP_ACCESS_ERR"}
    THEN "UCS_LOG_LEVEL_DIAG"
    ELSE IF event_type \in {"QP_FATAL", "QP_REQ_ERR", "SQ_DRAINED", "PATH_MIG",
                            "PATH_MIG_ERR"}
    THEN "UCS_LOG_LEVEL_ERROR"
    ELSE IF event_type = "QP_LAST_WQE_REACHED" THEN "UCS_LOG_LEVEL_DEBUG"
    ELSE IF event_type = "SRQ_ERR" THEN "UCS_LOG_LEVEL_ERROR"
    ELSE IF event_type = "SRQ_LIMIT_REACHED" THEN "UCS_LOG_LEVEL_DEBUG"
    ELSE IF event_type = "DEVICE_FATAL" THEN "UCS_LOG_LEVEL_DIAG"
    ELSE IF event_type \in {"PORT_ACTIVE", "PORT_ERR", "SM_CHANGE",
                            "CLIENT_REREGISTER"}
    THEN "UCS_LOG_LEVEL_DIAG"
    ELSE IF event_type \in {"GID_CHANGE", "LID_CHANGE", "PKEY_CHANGE"}
    THEN "UCS_LOG_LEVEL_WARN"
    ELSE "UCS_LOG_LEVEL_INFO"

\* faulty variant: every event with a QP number is dispatched
handle_dispatches_every_qp_event(s, event, order) ==
    [st |-> IF event.event_type \in QpEventTypes
            THEN uct_ib_device_async_event_dispatch_nolock(s, event)
            ELSE IF event.event_type = "DEVICE_FATAL"
            THEN uct_ib_device_async_event_dispatch_fatal(s, order)
            ELSE s,
     level |-> HandleLevel(event.event_type),
     steps |-> IF event.event_type \in QpEventTypes
               THEN <<"dispatch", "count", "log">>
               ELSE IF event.event_type = "DEVICE_FATAL"
               THEN <<"dispatch_fatal", "count", "log">>
               ELSE <<"count", "log">>,
     async_event |-> 1]

\* faulty variant: only the events that are dispatched are counted
handle_counts_dispatched_only(s, event, order) ==
    [st |-> IF event.event_type = "QP_LAST_WQE_REACHED"
            THEN uct_ib_device_async_event_dispatch_nolock(s, event)
            ELSE IF event.event_type = "DEVICE_FATAL"
            THEN uct_ib_device_async_event_dispatch_fatal(s, order)
            ELSE s,
     level |-> HandleLevel(event.event_type),
     steps |-> IF event.event_type = "QP_LAST_WQE_REACHED"
               THEN <<"dispatch", "count", "log">>
               ELSE IF event.event_type = "DEVICE_FATAL"
               THEN <<"dispatch_fatal", "count", "log">>
               ELSE <<"log">>,
     async_event |-> IF event.event_type \in {"QP_LAST_WQE_REACHED",
                                               "DEVICE_FATAL"}
                     THEN 1 ELSE 0]

\* uct_ib_handle_async_event: the state it leaves, the log level and what it
\* does, in order; order: the order kh_foreach_key visits the keys in
\* async_event: UCS_STATS_UPDATE_COUNTER(..., UCT_IB_DEVICE_STAT_ASYNC_EVENT, +1)
uct_ib_handle_async_event(s, event, order) ==
    [st |-> IF event.event_type = "QP_LAST_WQE_REACHED"
            THEN uct_ib_device_async_event_dispatch_nolock(s, event)
            ELSE IF event.event_type = "DEVICE_FATAL"
            THEN uct_ib_device_async_event_dispatch_fatal(s, order)
            ELSE s,
     level |-> HandleLevel(event.event_type),
     steps |-> IF event.event_type = "QP_LAST_WQE_REACHED"
               THEN <<"dispatch", "count", "log">>
               ELSE IF event.event_type = "DEVICE_FATAL"
               THEN <<"dispatch_fatal", "count", "log">>
               ELSE <<"count", "log">>,
     async_event |-> 1]

\* the handler between two invocations
HdlIdle == [pc |-> "idle", event |-> NoEvent, level |-> "none", log |-> <<>>,
            outside |-> FALSE, async_event |-> 0]

\* the variables the handler does not write
HandlerFrame ==
    /\ UNCHANGED <<ahvars, gidvars, specvars, portvars, life, pci, td, fcall>>
    /\ UNCHANGED <<async_event_lock, pc, op, status, registered, trace, late>>

\* faulty variant: a failed retrieval is acknowledged
get_failure_acknowledged ==
    /\ life.handler
    /\ hdl.pc = "idle"
    /\ \/ \E errno \in {"EAGAIN", "EBADF"} :
             hdl' = [hdl EXCEPT !.event = NoEvent, !.level = "none",
                                !.log = <<"get_failed", "ack">>]
       \/ \E ibevent \in IbEvents :
             /\ hdl.async_event < MaxEvents
             /\ hdl' = [hdl EXCEPT !.pc = "got",
                                   !.event = HandlerEvent(ibevent),
                                   !.level = "none",
                                   !.log = <<"get">>]
    /\ UNCHANGED <<async_events_hash, cb_id, cbq, ncb, dev_failed, nsched,
                   fatal_ran, assert_failed>>
    /\ HandlerFrame

\* the event loop invokes uct_ib_async_event_handler, registered by
\* ucs_async_set_event_handler: ibv_get_async_event fails (nothing to read,
\* or an error, which is logged) or delivers one event
HandlerGet ==
    /\ life.handler
    /\ hdl.pc = "idle"
    /\ \/ \E errno \in {"EAGAIN", "EBADF"} :
             hdl' = [hdl EXCEPT !.event = NoEvent, !.level = "none",
                                !.log = IF errno = "EAGAIN"
                                        THEN <<"get_failed">>
                                        ELSE <<"get_failed", "warn">>]
       \/ \E ibevent \in IbEvents :
             /\ hdl.async_event < MaxEvents
             /\ hdl' = [hdl EXCEPT !.pc = "got",
                                   !.event = HandlerEvent(ibevent),
                                   !.level = "none",
                                   !.log = <<"get">>]
    /\ UNCHANGED <<async_events_hash, cb_id, cbq, ncb, dev_failed, nsched,
                   fatal_ran, assert_failed>>
    /\ HandlerFrame

\* the registry and its lock exist
RegistryAlive == life.registry = "init" /\ life.lock = "init"

\* the handler is about to take the lock and read the registry
Dispatching ==
    /\ hdl.pc = "got"
    /\ hdl.event.event_type \in {"QP_LAST_WQE_REACHED", "DEVICE_FATAL"}

\* uct_ib_handle_async_event(dev, &event); a dispatch spins until the lock
\* is free
HandlerHandle ==
    /\ hdl.pc = "got"
    /\ Dispatching => (RegistryAlive /\ async_event_lock = NoThread)
    /\ \E order \in Orders(DOMAIN async_events_hash) :
          LET r == uct_ib_handle_async_event(EvState, hdl.event, order)
          IN /\ r.st.ncb <= MaxCbId
             /\ Store(r.st)
             /\ hdl' = [hdl EXCEPT !.pc = "handled",
                                   !.level = r.level,
                                   !.log = @ \o r.steps,
                                   !.async_event = @ + r.async_event]
    /\ fatal_ran' = (fatal_ran \/ hdl.event.event_type = "DEVICE_FATAL")
    /\ HandlerFrame

\* the same call while the registry or its lock is not initialised or is
\* destroyed: undefined behaviour; the call works on the memory as it is, or
\* the process crashes
HandlerHandleOutside ==
    /\ Dispatching
    /\ ~RegistryAlive
    /\ \/ \E order \in Orders(DOMAIN async_events_hash) :
             LET r == uct_ib_handle_async_event(EvState, hdl.event, order)
             IN /\ r.st.ncb <= MaxCbId
                /\ Store(r.st)
                /\ hdl' = [hdl EXCEPT !.pc = "handled",
                                      !.level = r.level,
                                      !.log = @ \o r.steps,
                                      !.async_event = @ + r.async_event,
                                      !.outside = TRUE]
       \/ /\ hdl' = [hdl EXCEPT !.pc = "crashed", !.outside = TRUE]
          /\ UNCHANGED <<async_events_hash, cb_id, cbq, ncb, dev_failed,
                         nsched, assert_failed>>
    /\ fatal_ran' = (fatal_ran \/ hdl.event.event_type = "DEVICE_FATAL")
    /\ HandlerFrame

\* ibv_ack_async_event(&ibevent) and the return to the event loop
HandlerAck ==
    /\ hdl.pc = "handled"
    /\ hdl' = [hdl EXCEPT !.pc = "idle", !.log = Append(@, "ack")]
    /\ UNCHANGED <<async_events_hash, cb_id, cbq, ncb, dev_failed, nsched,
                   fatal_ran, assert_failed>>
    /\ HandlerFrame

(***************************************************************************)
(* uct_ib_device_init and uct_ib_device_cleanup                            *)
(***************************************************************************)
\* the device before uct_ib_device_init
LifeNew(async_events) ==
    [pc |-> "init", async_events |-> async_events, handler |-> FALSE,
     stats |-> FALSE, registry |-> "uninit", lock |-> "uninit",
     ah |-> "uninit", warned |-> FALSE, nonempty |-> FALSE,
     status |-> "none"]

\* the device after a successful uct_ib_device_init with async events
LifeReady ==
    [pc |-> "ready", async_events |-> TRUE, handler |-> TRUE,
     stats |-> TRUE, registry |-> "init", lock |-> "init",
     ah |-> "init", warned |-> FALSE, nonempty |-> FALSE,
     status |-> "UCS_OK"]

\* the variables init and cleanup do not write
LifeFrame ==
    /\ UNCHANGED <<ahvars, gidvars, specvars, portvars, hdl, pci, td, fcall>>
    /\ UNCHANGED <<cb_id, cbq, ncb, dev_failed, pc, op, status, registered,
                   trace, nsched, late, fatal_ran, assert_failed>>

\* UCS_STATS_NODE_ALLOC
LifeStatsAlloc ==
    /\ life.pc = "init"
    /\ \/ life' = [life EXCEPT !.stats = TRUE, !.pc = "fcntl"]
       \/ life' = [life EXCEPT !.status = "UCS_ERR_NO_MEMORY", !.pc = "failed"]
    /\ UNCHANGED <<async_events_hash, async_event_lock>>
    /\ LifeFrame

\* ucs_sys_fcntl_modfl(async_fd, O_NONBLOCK, 0)
LifeFcntl ==
    /\ life.pc = "fcntl"
    /\ \/ life' = [life EXCEPT !.pc = "set_handler"]
       \/ life' = [life EXCEPT !.stats = FALSE,
                               !.status = "UCS_ERR_IO_ERROR", !.pc = "failed"]
    /\ UNCHANGED <<async_events_hash, async_event_lock>>
    /\ LifeFrame

\* ucs_async_set_event_handler(..., uct_ib_async_event_handler, dev, NULL)
\* when dev->async_events is set
LifeSetHandler ==
    /\ life.pc = "set_handler"
    /\ IF life.async_events
       THEN \/ life' = [life EXCEPT !.handler = TRUE, !.pc = "init_ah"]
            \/ life' = [life EXCEPT !.stats = FALSE,
                                    !.status = "UCS_ERR_IO_ERROR",
                                    !.pc = "failed"]
       ELSE life' = [life EXCEPT !.pc = "init_ah"]
    /\ UNCHANGED <<async_events_hash, async_event_lock>>
    /\ LifeFrame

\* kh_init_inplace(uct_ib_ah, ...); ucs_recursive_spinlock_init(&dev->ah_lock)
LifeInitAh ==
    /\ life.pc = "init_ah"
    /\ life' = [life EXCEPT !.ah = "init", !.pc = "init_events_hash"]
    /\ UNCHANGED <<async_events_hash, async_event_lock>>
    /\ LifeFrame

\* kh_init_inplace(uct_ib_async_event, &dev->async_events_hash)
LifeInitEventsHash ==
    /\ life.pc = "init_events_hash"
    /\ life' = [life EXCEPT !.registry = "init", !.pc = "init_event_lock"]
    /\ async_events_hash' = <<>>
    /\ UNCHANGED async_event_lock
    /\ LifeFrame

\* ucs_spinlock_init(&dev->async_event_lock, 0); return UCS_OK
LifeInitEventLock ==
    /\ life.pc = "init_event_lock"
    /\ life' = [life EXCEPT !.lock = "init", !.status = "UCS_OK",
                            !.pc = "ready"]
    /\ async_event_lock' = NoThread
    /\ UNCHANGED async_events_hash
    /\ LifeFrame

\* faulty variant: cleanup does not look at the size of the registry
cleanup_without_check ==
    /\ life.pc = "ready"
    /\ pc["app"] = "idle"
    /\ life' = [life EXCEPT !.nonempty = (DOMAIN async_events_hash # {}),
                            !.pc = "destroy_events_hash"]
    /\ UNCHANGED <<async_events_hash, async_event_lock>>
    /\ LifeFrame

\* uct_ib_device_cleanup, called when the application is in no call of the
\* device: kh_size(&dev->async_events_hash) != 0 is answered with a warning
LifeCleanupCheck ==
    /\ life.pc = "ready"
    /\ pc["app"] = "idle"
    /\ life' = [life EXCEPT !.nonempty = (DOMAIN async_events_hash # {}),
                            !.warned = (Cardinality(DOMAIN async_events_hash) # 0),
                            !.pc = "destroy_events_hash"]
    /\ UNCHANGED <<async_events_hash, async_event_lock>>
    /\ LifeFrame

\* kh_destroy_inplace(uct_ib_async_event, &dev->async_events_hash)
LifeDestroyEventsHash ==
    /\ life.pc = "destroy_events_hash"
    /\ life' = [life EXCEPT !.registry = "destroyed",
                            !.pc = "destroy_event_lock"]
    /\ UNCHANGED <<async_events_hash, async_event_lock>>
    /\ LifeFrame

\* ucs_spinlock_destroy(&dev->async_event_lock)
LifeDestroyEventLock ==
    /\ life.pc = "destroy_event_lock"
    /\ life' = [life EXCEPT !.lock = "destroyed", !.pc = "destroy_ah"]
    /\ UNCHANGED <<async_events_hash, async_event_lock>>
    /\ LifeFrame

\* kh_destroy_inplace(uct_ib_ah, ...); ucs_recursive_spinlock_destroy(...)
LifeDestroyAh ==
    /\ life.pc = "destroy_ah"
    /\ life' = [life EXCEPT !.ah = "destroyed", !.pc = "remove_handler"]
    /\ UNCHANGED <<async_events_hash, async_event_lock>>
    /\ LifeFrame

\* ucs_async_remove_handler(async_fd, 1) when dev->async_events is set: it
\* returns when no invocation of the handler is running
LifeRemoveHandler ==
    /\ life.pc = "remove_handler"
    /\ life.async_events => hdl.pc \in {"idle", "crashed"}
    /\ life' = [life EXCEPT !.handler = FALSE, !.pc = "free_stats"]
    /\ UNCHANGED <<async_events_hash, async_event_lock>>
    /\ LifeFrame

\* UCS_STATS_NODE_FREE(dev->stats)
LifeFreeStats ==
    /\ life.pc = "free_stats"
    /\ life' = [life EXCEPT !.stats = FALSE, !.pc = "gone"]
    /\ UNCHANGED <<async_events_hash, async_event_lock>>
    /\ LifeFrame

\* the calls the application makes between init and cleanup
LifeCalls == {c \in Calls("app") : c.name \in {"register", "unregister"}}

(***************************************************************************)
(* uct_ib_device_set_pci_bw                                                *)
(***************************************************************************)
\* uct_ib_device_pci_info[]: bw_gbps in thousandths of a GT/s
uct_ib_device_pci_info ==
    << [name |-> "gen1", bw_gbps |-> 2500, payload |-> 256, tlp_overhead |-> 24,
        ctrl_ratio |-> 4, ctrl_overhead |-> 16, encoding |-> 8, decoding |-> 10],
       [name |-> "gen2", bw_gbps |-> 5000, payload |-> 256, tlp_overhead |-> 24,
        ctrl_ratio |-> 4, ctrl_overhead |-> 16, encoding |-> 8, decoding |-> 10],
       [name |-> "gen3", bw_gbps |-> 8000, payload |-> 256, tlp_overhead |-> 26,
        ctrl_ratio |-> 4, ctrl_overhead |-> 16, encoding |-> 128,
        decoding |-> 130],
       [name |-> "gen4", bw_gbps |-> 16000, payload |-> 256, tlp_overhead |-> 26,
        ctrl_ratio |-> 4, ctrl_overhead |-> 16, encoding |-> 128,
        decoding |-> 130] >>

\* a file that ucs_read_file_str cannot read
Unreadable == [readable |-> FALSE, text |-> <<>>, value |-> -1]

\* contents of current_link_width, a string as the sequence of its
\* characters; value: the width written there, -1 when the text does not
\* start with an unsigned integer
WidthFiles ==
    {[readable |-> TRUE, text |-> <<"1", "6", "\n">>, value |-> 16],
     [readable |-> TRUE, text |-> <<"4">>, value |-> 4],
     [readable |-> TRUE, text |-> <<" ", "8", "\n">>, value |-> 8],
     [readable |-> TRUE, text |-> <<"+", "1", "\n">>, value |-> 1],
     [readable |-> TRUE, text |-> <<"x", "1", "6">>, value |-> -1],
     [readable |-> TRUE, text |-> <<"\n">>, value |-> -1],
     [readable |-> TRUE, text |-> <<>>, value |-> -1]}

\* contents of current_link_speed; value: the speed written there in
\* thousandths of a GT/s, -1 when the text is not a number followed by GT/s
SpeedFiles ==
    {[readable |-> TRUE, text |-> <<"2", ".", "5", " ", "G", "T", "/", "s", "\n">>, value |-> 2500],
     [readable |-> TRUE, text |-> <<"5", " ", "G", "T", "/", "s">>, value |-> 5000],
     [readable |-> TRUE, text |-> <<"8", ".", "0", " ", "G", "T", "/", "s", "\n">>, value |-> 8000],
     [readable |-> TRUE, text |-> <<"1", "6", ".", "0", " ", "G", "T", "/", "s", " ", "P", "C", "I", "e", "\n">>, value |-> 16000],
     [readable |-> TRUE, text |-> <<"8", ".", "0", "5", " ", "G", "T", "/", "s">>, value |-> 8050],
     [readable |-> TRUE, text |-> <<"7", ".", "9", "5", " ", "G", "T", "/", "s">>, value |-> 7950],
     [readable |-> TRUE, text |-> <<"3", ".", "0", " ", "G", "T", "/", "s">>, value |-> 3000],
     [readable |-> TRUE, text |-> <<"1", ".", "0", " ", "G", "T", "/", "s">>, value |-> 1000],
     [readable |-> TRUE, text |-> <<"3", "2", ".", "0", " ", "G", "T", "/", "s">>, value |-> 32000],
     [readable |-> TRUE, text |-> <<"8", ".", "0", "G", "T", "/", "s">>, value |-> 8000],
     [readable |-> TRUE, text |-> <<"8", ".", "0", " ", "g", "t", "/", "s">>, value |-> 8000],
     [readable |-> TRUE, text |-> <<"8", ".", "0">>, value |-> -1],
     [readable |-> TRUE, text |-> <<"f", "a", "s", "t">>, value |-> -1],
     [readable |-> TRUE, text |-> <<"8", ".", "0", " ", "G", "b", "/", "s">>, value |-> -1],
     [readable |-> TRUE, text |-> <<"G", "T", "/", "s">>, value |-> -1],
     [readable |-> TRUE, text |-> <<>>, value |-> -1]}

\* the inputs of uct_ib_device_set_pci_bw
PciArgs ==
    [sysfs_path : {NULL, "/sys/class/infiniband/mlx5_0/device"},
     width_file : WidthFiles \cup {Unreadable},
     speed_file : SpeedFiles \cup {Unreadable}]

\* isspace and isdigit
Whitespace == {" ", "\n"}

Digits == {"0", "1", "2", "3", "4", "5", "6", "7", "8", "9"}

DigitValue(c) ==
    CASE c = "0" -> 0 [] c = "1" -> 1 [] c = "2" -> 2 [] c = "3" -> 3
      [] c = "4" -> 4 [] c = "5" -> 5 [] c = "6" -> 6 [] c = "7" -> 7
      [] c = "8" -> 8 [] c = "9" -> 9

\* tolower on the letters that occur in the files
tolower(c) ==
    CASE c = "G" -> "g" [] c = "T" -> "t" [] c = "P" -> "p" [] c = "C" -> "c"
      [] c = "I" -> "i" [] OTHER -> c

\* the input after its leading white space
RECURSIVE SkipSpace(_)
SkipSpace(s) ==
    IF s # <<>> /\ Head(s) \in Whitespace THEN SkipSpace(Tail(s)) ELSE s

\* the digits at the start of s: their value, how many, and what follows
RECURSIVE ScanDigits(_, _, _)
ScanDigits(s, v, n) ==
    IF s # <<>> /\ Head(s) \in Digits
    THEN ScanDigits(Tail(s), v * 10 + DigitValue(Head(s)), n + 1)
    ELSE [value |-> v, n |-> n, rest |-> s]

\* the characters up to the next white space, and what follows
RECURSIVE ScanToken(_, _)
ScanToken(s, tok) ==
    IF s # <<>> /\ Head(s) \notin Whitespace
    THEN ScanToken(Tail(s), Append(tok, Head(s)))
    ELSE [token |-> tok, rest |-> s]

\* sscanf(str, "%u", &width): the number of conversions (-1: end of input)
\* and the width; white space and a plus sign may precede the digits
sscanf_u(str) ==
    LET s == SkipSpace(str)
        u == IF s # <<>> /\ Head(s) = "+" THEN Tail(s) ELSE s
        d == ScanDigits(u, 0, 0)
    IN [n |-> IF s = <<>> THEN -1 ELSE IF d.n > 0 THEN 1 ELSE 0,
        width |-> d.value]

\* a fraction of n digits in thousandths
Thousandths(v, n) ==
    IF n = 0 THEN 0
    ELSE IF n = 1 THEN v * 100
    ELSE IF n = 2 THEN v * 10
    ELSE v

\* sscanf(str, "%lf%s", &bw_gbps, gts): the number of conversions, the
\* number in thousandths (decimal notation with at most three decimals) and
\* the word after it
sscanf_lf_s(str) ==
    LET s == SkipSpace(str)
        i == ScanDigits(s, 0, 0)
        f == IF i.rest # <<>> /\ Head(i.rest) = "."
             THEN ScanDigits(Tail(i.rest), 0, 0)
             ELSE [value |-> 0, n |-> 0, rest |-> i.rest]
        w == ScanToken(SkipSpace(f.rest), <<>>)
    IN IF s = <<>> THEN [n |-> -1, bw_gbps |-> 0, gts |-> <<>>]
       ELSE IF i.n + f.n = 0 THEN [n |-> 0, bw_gbps |-> 0, gts |-> <<>>]
       ELSE [n |-> IF w.token = <<>> THEN 1 ELSE 2,
             bw_gbps |-> i.value * 1000 + Thousandths(f.value, f.n),
             gts |-> w.token]

\* the input without its trailing white space
RECURSIVE StripRight(_)
StripRight(s) ==
    IF s # <<>> /\ s[Len(s)] \in Whitespace
    THEN StripRight(SubSeq(s, 1, Len(s) - 1))
    ELSE s

\* ucs_strtrim
ucs_strtrim(s) == StripRight(SkipSpace(s))

\* strcasecmp(s1, s2): 0 when the strings are equal up to case
strcasecmp(s1, s2) ==
    IF /\ Len(s1) = Len(s2)
       /\ \A i \in 1..Len(s1) : tolower(s1[i]) = tolower(s2[i])
    THEN 0
    ELSE 1

\* uct_ib_device_read_sysfs_file
uct_ib_device_read_sysfs_file(sysfs_path, file) ==
    IF sysfs_path = NULL THEN "UCS_ERR_NO_ELEM"
    ELSE IF ~file.readable THEN "UCS_ERR_NO_ELEM"
    ELSE "UCS_OK"

RECURSIVE Gcd(_, _)
Gcd(a, b) == IF b = 0 THEN a ELSE Gcd(b, a % b)

\* the fraction n/d in lowest terms
Ratio(n, d) == [num |-> n \div Gcd(n, d), den |-> d \div Gcd(n, d)]

\* the product of two fractions, in lowest terms
RatioMul(x, y) ==
    LET a == Ratio(x.num, y.den)
        b == Ratio(y.num, x.den)
    IN [num |-> a.num * b.num, den |-> a.den * b.den]

\* dev->pci_bw = DBL_MAX
PciBwMax == [max |-> TRUE, num |-> 0, den |-> 1]

\* the effective bandwidth of table entry p on a link of this width, as an
\* exact fraction, in units of 125000 bytes per second (p.bw_gbps * 1e9 / 8.0
\* bytes per second are p.bw_gbps units)
EffectiveBw(p, width) ==
    LET link_utilization ==
            Ratio(p.payload * p.ctrl_ratio,
                  ((p.payload + p.tlp_overhead) * p.ctrl_ratio) + p.ctrl_overhead)
        effective_bw ==
            RatioMul(RatioMul(Ratio(p.bw_gbps * width, 1),
                              Ratio(p.encoding, p.decoding)),
                     link_utilization)
    IN [max |-> FALSE, num |-> effective_bw.num, den |-> effective_bw.den]

\* the loop over the table from entry i on: the index of the first entry
\* that is not skipped by (bw_gbps / p->bw_gbps) > 1.01, 0 when there is none
RECURSIVE PciInfoLookup(_, _)
PciInfoLookup(bw_gbps, i) ==
    IF i > Len(uct_ib_device_pci_info) THEN 0
    ELSE IF bw_gbps * 100 > 101 * uct_ib_device_pci_info[i].bw_gbps
    THEN PciInfoLookup(bw_gbps, i + 1)
    ELSE i

\* uct_ib_device_set_pci_bw: the value stored in dev->pci_bw
uct_ib_device_set_pci_bw(a) ==
    LET w == sscanf_u(a.width_file.text)
        s == sscanf_lf_s(a.speed_file.text)
        i == PciInfoLookup(s.bw_gbps, 1)
    IN IF uct_ib_device_read_sysfs_file(a.sysfs_path, a.width_file) # "UCS_OK"
       THEN PciBwMax
       ELSE IF uct_ib_device_read_sysfs_file(a.sysfs_path, a.speed_file)
                   # "UCS_OK"
       THEN PciBwMax
       ELSE IF w.n < 1 THEN PciBwMax
       ELSE IF s.n < 2 \/ strcasecmp(<<"G", "T", "/", "s">>, ucs_strtrim(s.gts)) # 0
       THEN PciBwMax
       ELSE IF i = 0 THEN PciBwMax
       ELSE EffectiveBw(uct_ib_device_pci_info[i], w.width)

\* the estimator has not run
PciIdle == [args |-> [sysfs_path |-> NULL, width_file |-> Unreadable,
                      speed_file |-> Unreadable],
            bw |-> PciBwMax, done |-> FALSE]

\* uct_ib_device_query calls uct_ib_device_set_pci_bw(dev, sysfs_path)
SetPciBw ==
    /\ ~pci.done
    /\ pci' = [pci EXCEPT !.bw = uct_ib_device_set_pci_bw(pci.args),
                          !.done = TRUE]
    /\ UNCHANGED <<evvars, ahvars, gidvars, specvars, portvars, life, hdl, td, fcall>>

PciInit ==
    /\ pci \in [args : PciArgs, bw : {PciBwMax}, done : {FALSE}]

(***************************************************************************)
(* uct_ib_device_cleanup_ah_cached                                         *)
(***************************************************************************)
\* the handles the cache holds
Cached(hash) == {hash[a] : a \in DOMAIN hash}

\* uct_ib_device_cleanup_ah_cached has not run
TdIdle == [cleaned |-> FALSE, cached |-> {},
           ndestroy |-> [h \in Handles |-> 0], stale |-> FALSE]

\* faulty variant: the walk over the cache leaves out one entry
cleanup_misses_an_entry ==
    /\ ~td.cleaned
    /\ \A t \in AhThreads : ah_pc[t] = "idle"
    /\ \E skip \in Cached(ah_hash) \cup {NoAh} :
          LET D == Cached(ah_hash) \ {skip}
          IN /\ td' = [cleaned |-> TRUE,
                       cached |-> Cached(ah_hash),
                       ndestroy |-> [h \in Handles |->
                                        td.ndestroy[h] + (IF h \in D THEN 1 ELSE 0)],
                       stale |-> td.stale \/ (D \ ah_live # {})]
             /\ ah_live' = ah_live \ D
             /\ ah_for' = [h \in Handles |->
                              IF h \in ah_live' THEN ah_for[h] ELSE NoAttr]
    /\ UNCHANGED <<ah_hash, ah_lock, ah_pc, ah_call, ah_raced, ah_given,
                   ah_ncreate, ah_create_failed, ah_put_failed>>
    /\ UNCHANGED <<evvars, gidvars, specvars, portvars, life, hdl, pci, fcall>>

\* uct_ib_device_cleanup_ah_cached, called once, when no thread is in
\* create_ah_cached: kh_foreach_value(&dev->ah_hash, ah, ibv_destroy_ah(ah));
\* the cache keeps its entries
CleanupAhCached ==
    /\ ~td.cleaned
    /\ \A t \in AhThreads : ah_pc[t] = "idle"
    /\ td' = [cleaned |-> TRUE,
              cached |-> Cached(ah_hash),
              ndestroy |-> [h \in Handles |->
                               td.ndestroy[h]
                                   + Cardinality({a \in DOMAIN ah_hash :
                                                     ah_hash[a] = h})],
              stale |-> td.stale \/ (Cached(ah_hash) \ ah_live # {})]
    /\ ah_live' = ah_live \ Cached(ah_hash)
    /\ ah_for' = [h \in Handles |-> IF h \in ah_live' THEN ah_for[h] ELSE NoAttr]
    /\ UNCHANGED <<ah_hash, ah_lock, ah_pc, ah_call, ah_raced, ah_given,
                   ah_ncreate, ah_create_failed, ah_put_failed>>
    /\ UNCHANGED <<evvars, gidvars, specvars, portvars, life, hdl, pci, fcall>>

(***************************************************************************)
(* uct_ib_device_query_ports                                               *)
(***************************************************************************)
\* no call of the functions below
NoFcall == [name |-> "none"]

\* the ports a device may have: active InfiniBand, active Ethernet, down,
\* and active with an empty GID table
QueryPortKinds ==
    { [state |-> "IBV_PORT_ACTIVE", link_layer |-> "IBV_LINK_LAYER_INFINIBAND",
       gid_tbl |-> <<[query_ok |-> TRUE, gid |-> GidIPv6, type |-> GidTypeNone,
                      live |-> FALSE]>>],
      [state |-> "IBV_PORT_ACTIVE", link_layer |-> "IBV_LINK_LAYER_ETHERNET",
       gid_tbl |-> <<[query_ok |-> TRUE, gid |-> GidIPv4, type |-> GidTypeV1,
                      live |-> FALSE]>>],
      [state |-> "IBV_PORT_DOWN", link_layer |-> "IBV_LINK_LAYER_INFINIBAND",
       gid_tbl |-> <<[query_ok |-> TRUE, gid |-> GidIPv6, type |-> GidTypeNone,
                      live |-> FALSE]>>],
      [state |-> "IBV_PORT_ACTIVE", link_layer |-> "IBV_LINK_LAYER_INFINIBAND",
       gid_tbl |-> <<>>] }

\* the arguments of uct_ib_device_query_ports: the device with its ports,
\* the flags, and whether ucs_calloc succeeds
QueryPortsArgs ==
    UNION { [ first_port : {fp},
              num_ports : {np},
              port_attr : [fp..(fp + np - 1) -> QueryPortKinds],
              sys_dev : {0, 3},
              flags : {{}, {"UCT_IB_DEVICE_FLAG_LINK_IB"}},
              calloc_ok : BOOLEAN ] :
            fp \in {0, 1}, np \in {1, 2} }

\* the arguments of the port check that query_ports makes for port_num
QueryPortCheckArgs(a, port_num) ==
    [ port_num |-> port_num,
      first_port |-> a.first_port,
      num_ports |-> a.num_ports,
      gid_tbl |-> a.port_attr[port_num].gid_tbl,
      state |-> a.port_attr[port_num].state,
      transport_type |-> "IBV_TRANSPORT_IB",
      link_layer |-> a.port_attr[port_num].link_layer,
      has_dc |-> FALSE,
      pci_id |-> [vendor |-> 5555, device |-> 4123],
      gid_index |-> UCS_ULUNITS_AUTO,
      check_subnet_filter |-> FALSE,
      subnet_filter |-> subnet_prefix(GidIPv6),
      flags |-> a.flags ]

\* the listing entry of a port: name "<device>:<port>", type, sys_device
TlDevice(a, port_num) ==
    [name |-> <<"mlx5_0", ":", port_num>>,
     type |-> "UCT_DEVICE_TYPE_NET",
     sys_device |-> a.sys_dev]

\* faulty variant: the loop stops at the first port that fails the check
query_ports_stops_at_failure(a, port_num, tl_devices) ==
    IF port_num >= a.first_port + a.num_ports
    THEN tl_devices
    ELSE IF uct_ib_device_port_check(QueryPortCheckArgs(a, port_num)) # "UCS_OK"
    THEN tl_devices
    ELSE Append(tl_devices, TlDevice(a, port_num))

\* the loop of uct_ib_device_query_ports from port_num (a uint8_t) on
RECURSIVE QueryPortsLoop(_, _, _)
QueryPortsLoop(a, port_num, tl_devices) ==
    IF port_num >= a.first_port + a.num_ports
    THEN tl_devices
    ELSE IF uct_ib_device_port_check(QueryPortCheckArgs(a, port_num)) # "UCS_OK"
    THEN QueryPortsLoop(a, (port_num + 1) % 256, tl_devices)
    ELSE QueryPortsLoop(a, (port_num + 1) % 256,
                        Append(tl_devices, TlDevice(a, port_num)))

\* uct_ib_device_query_ports: the status, and *tl_devices_p and
\* *num_tl_devices_p when they are written
uct_ib_device_query_ports(a) ==
    LET tl_devices == QueryPortsLoop(a, a.first_port, <<>>)
    IN IF ~a.calloc_ok
       THEN [status |-> "UCS_ERR_NO_MEMORY", written |-> FALSE,
             tl_devices |-> <<>>, num_tl_devices |-> 0]
       ELSE IF Len(tl_devices) = 0
       THEN [status |-> "UCS_ERR_NO_DEVICE", written |-> FALSE,
             tl_devices |-> <<>>, num_tl_devices |-> 0]
       ELSE [status |-> "UCS_OK", written |-> TRUE,
             tl_devices |-> tl_devices, num_tl_devices |-> Len(tl_devices)]

\* a call of uct_ib_device_query_ports
QueryPorts ==
    /\ fcall.name = "query_ports"
    /\ ~fcall.done
    /\ fcall' = [fcall EXCEPT !.result = uct_ib_device_query_ports(fcall.args),
                              !.done = TRUE]
    /\ UNCHANGED <<evvars, ahvars, gidvars, specvars, portvars, life, hdl, pci,
                   td>>

QueryPortsInit ==
    fcall \in [name : {"query_ports"}, args : QueryPortsArgs,
               result : {[status |-> "none", written |-> FALSE,
                          tl_devices |-> <<>>, num_tl_devices |-> 0]},
               done : {FALSE}]

(***************************************************************************)
(* uct_ib_device_query and uct_ib_device_get_locality                      *)
(***************************************************************************)
UCT_IB_FIRST_PORT == 1

UCT_IB_DEV_MAX_PORTS == 2

UCS_SYS_DEVICE_ID_UNKNOWN == 255

\* the sysfs path of a physical function and of a sub-function
PfPath == "/sys/devices/pci0000:00/0000:03:00.0"

SfPath == "/sys/devices/pci0000:00/0000:03:00.0/uuid"

\* a sysfs file holding a number: whether it can be read, and the number
\* strtol or ucs_read_file_number makes of its content
NumberFiles(values) ==
    {[readable |-> FALSE, value |-> 0]}
        \cup {[readable |-> TRUE, value |-> v] : v \in values}

\* the environment of uct_ib_device_query: the verbs calls, the node type,
\* the number of ports, the first port whose query fails (0: none), and the
\* sysfs files
DeviceQueryArgs ==
    [ query_device : {"UCS_OK", "UCS_ERR_IO_ERROR"},
      node_type : {"IBV_NODE_SWITCH", "IBV_NODE_CA"},
      phys_port_cnt : {1, 3},
      failing_port : 0..3,
      realpath_ok : BOOLEAN,
      pf_stat_ok : BOOLEAN,
      sf_stat_ok : BOOLEAN,
      bdf_found : BOOLEAN,
      vendor_file : NumberFiles({5555}),
      device_file : NumberFiles({4123}),
      width_file : {Unreadable,
                    [readable |-> TRUE, text |-> <<"1", "6", "\n">>, value |-> 16]},
      speed_file : {Unreadable,
                    [readable |-> TRUE, text |-> <<"8", ".", "0", " ", "G", "T", "/", "s", "\n">>, value |-> 8000]},
      numa_file : NumberFiles({1}) ]

\* uct_ib_device_get_sysfs_path
uct_ib_device_get_sysfs_path(a) ==
    IF ~a.realpath_ok THEN NULL
    ELSE IF a.pf_stat_ok THEN PfPath
    ELSE IF a.sf_stat_ok THEN SfPath
    ELSE NULL

\* uct_ib_device_set_sys_dev: dev->sys_dev; found: the system device that
\* ucs_topo_find_device_by_bdf_name finds
uct_ib_device_set_sys_dev(sysfs_path, bdf_found, found) ==
    IF sysfs_path = NULL THEN UCS_SYS_DEVICE_ID_UNKNOWN
    ELSE IF ~bdf_found THEN UCS_SYS_DEVICE_ID_UNKNOWN
    ELSE found

\* uct_ib_device_set_pci_id: dev->pci_id
uct_ib_device_set_pci_id(sysfs_path, vendor_file, device_file) ==
    [vendor |-> IF uct_ib_device_read_sysfs_file(sysfs_path, vendor_file)
                       = "UCS_OK"
                THEN vendor_file.value ELSE 0,
     device |-> IF uct_ib_device_read_sysfs_file(sysfs_path, device_file)
                       = "UCS_OK"
                THEN device_file.value ELSE 0]

\* the device before the query
DevUnset ==
    [first_port |-> 0, num_ports |-> 0, nqueried |-> 0,
     sys_dev |-> 0, pci_id |-> [vendor |-> 0, device |-> 0],
     pci_bw |-> [max |-> FALSE, num |-> 0, den |-> 1], numa_node |-> 0]

\* faulty variant: a device without a sysfs path is refused
query_needs_sysfs_path(a, dev) ==
    LET first_port == IF a.node_type = "IBV_NODE_SWITCH"
                      THEN 0 ELSE UCT_IB_FIRST_PORT
        num_ports == IF a.node_type = "IBV_NODE_SWITCH" THEN 1
                     ELSE IF a.phys_port_cnt > UCT_IB_DEV_MAX_PORTS
                     THEN UCT_IB_DEV_MAX_PORTS
                     ELSE a.phys_port_cnt
        sysfs_path == uct_ib_device_get_sysfs_path(a)
        d == [dev EXCEPT !.first_port = first_port, !.num_ports = num_ports]
    IN IF a.query_device # "UCS_OK"
       THEN [status |-> a.query_device, dev |-> dev]
       ELSE IF a.failing_port \in 1..num_ports
       THEN [status |-> "UCS_ERR_IO_ERROR",
             dev |-> [d EXCEPT !.nqueried = a.failing_port - 1]]
       ELSE IF sysfs_path = NULL
       THEN [status |-> "UCS_ERR_NO_ELEM",
             dev |-> [d EXCEPT !.nqueried = num_ports]]
       ELSE [status |-> "UCS_OK",
             dev |-> [d EXCEPT
                        !.nqueried = num_ports,
                        !.sys_dev = uct_ib_device_set_sys_dev(
                                        sysfs_path, a.bdf_found, 3),
                        !.pci_id = uct_ib_device_set_pci_id(
                                       sysfs_path, a.vendor_file, a.device_file),
                        !.pci_bw = uct_ib_device_set_pci_bw(
                                       [sysfs_path |-> sysfs_path,
                                        width_file |-> a.width_file,
                                        speed_file |-> a.speed_file])]]

\* uct_ib_device_query: the status and the device; failing_port counts the
\* ibv_query_port calls, the i-th of which is for port i - 1 + first_port
uct_ib_device_query(a, dev) ==
    LET first_port == IF a.node_type = "IBV_NODE_SWITCH"
                      THEN 0 ELSE UCT_IB_FIRST_PORT
        num_ports == IF a.node_type = "IBV_NODE_SWITCH" THEN 1
                     ELSE IF a.phys_port_cnt > UCT_IB_DEV_MAX_PORTS
                     THEN UCT_IB_DEV_MAX_PORTS
                     ELSE a.phys_port_cnt
        sysfs_path == uct_ib_device_get_sysfs_path(a)
        d == [dev EXCEPT !.first_port = first_port, !.num_ports = num_ports]
    IN IF a.query_device # "UCS_OK"
       THEN [status |-> a.query_device, dev |-> dev]
       ELSE IF a.failing_port \in 1..num_ports
       THEN [status |-> "UCS_ERR_IO_ERROR",
             dev |-> [d EXCEPT !.nqueried = a.failing_port - 1]]
       ELSE [status |-> "UCS_OK",
             dev |-> [d EXCEPT
                        !.nqueried = num_ports,
                        !.sys_dev = uct_ib_device_set_sys_dev(
                                        sysfs_path, a.bdf_found, 3),
                        !.pci_id = uct_ib_device_set_pci_id(
                                       sysfs_path, a.vendor_file, a.device_file),
                        !.pci_bw = uct_ib_device_set_pci_bw(
                                       [sysfs_path |-> sysfs_path,
                                        width_file |-> a.width_file,
                                        speed_file |-> a.speed_file])]]

\* uct_ib_device_get_locality: *numa_node
uct_ib_device_get_locality(numa_file) ==
    IF numa_file.readable THEN numa_file.value ELSE -1

\* a call of uct_ib_device_query
DeviceQuery ==
    /\ fcall.name = "query"
    /\ fcall.status = "none"
    /\ LET r == uct_ib_device_query(fcall.args, fcall.dev)
       IN fcall' = [fcall EXCEPT !.status = r.status, !.dev = r.dev]
    /\ UNCHANGED <<evvars, ahvars, gidvars, specvars, portvars, life, hdl, pci,
                   td>>

\* uct_ib_device_init calls uct_ib_device_get_locality on the device
DeviceLocality ==
    /\ fcall.name = "query"
    /\ fcall.status = "UCS_OK"
    /\ ~fcall.located
    /\ fcall' = [fcall EXCEPT
                    !.dev.numa_node =
                        uct_ib_device_get_locality(fcall.args.numa_file),
                    !.located = TRUE]
    /\ UNCHANGED <<evvars, ahvars, gidvars, specvars, portvars, life, hdl, pci,
                   td>>

DeviceQueryInit ==
    fcall \in [name : {"query"}, args : DeviceQueryArgs, status : {"none"},
               dev : {DevUnset}, located : {FALSE}]

\* the other specifications: an initialised device, the handler at rest
MoreIdle ==
    /\ life = LifeReady
    /\ hdl = HdlIdle
    /\ pci = PciIdle
    /\ td = TdIdle
    /\ fcall = NoFcall

\* a device before uct_ib_device_init
LifeInit ==
    /\ life \in {LifeNew(a) : a \in BOOLEAN}
    /\ hdl = HdlIdle
    /\ pci = PciIdle
    /\ td = TdIdle
    /\ fcall = NoFcall

\* the registries the handler may meet: registered keys, some with a waiter
\* attached, none fired yet
HandlerRegistries ==
    UNION { {h \in [S -> [wait_ctx : {NULL} \cup WaitCtxs, fired : {FALSE}]] :
                \A k1 \in S, k2 \in S :
                    (k1 # k2 /\ h[k1].wait_ctx # NULL)
                        => h[k1].wait_ctx # h[k2].wait_ctx} :
            S \in SUBSET HandlerKeys }

Init == EvInit /\ AhInit /\ GidIdle /\ SpecIdle /\ PortIdle /\ MoreIdle

Next ==
    \/ \E t \in Threads : \E o \in Calls(t) : Lock(t, o)
    \/ \E t \in Threads : Register(t)
    \/ \E t \in Threads : Wait(t)
    \/ \E t \in Threads : Unregister(t)
    \/ \E t \in Threads : Dispatch(t)
    \/ \E t \in Threads : DispatchFatal(t)
    \/ \E t \in Threads : Unlock(t)
    \/ \E id \in DOMAIN cbq : Deliver(id)

Spec == Init /\ [][Next]_vars

NextAh ==
    \/ \E t \in AhThreads : \E attr \in AhAttrs : AhCall(t, attr)
    \/ \E t \in AhThreads : AhLock(t)
    \/ \E t \in AhThreads : AhGet(t)
    \/ \E t \in AhThreads : AhCreate(t)
    \/ \E t \in AhThreads : AhPut(t)
    \/ \E t \in AhThreads : AhUnlock(t)

InitAh == Init /\ cb_id = [w \in WaitCtxs |-> UCS_CALLBACKQ_ID_NULL]

SpecAh == InitAh /\ [][NextAh]_vars

NextGid ==
    \/ SelectGidCall
    \/ SelectGidEntry
    \/ SelectGidNextPrio
    \/ SelectGidDefault

InitGid ==
    /\ EvInit /\ cb_id = [w \in WaitCtxs |-> UCS_CALLBACKQ_ID_NULL]
    /\ AhInit
    /\ GidInit
    /\ SpecIdle
    /\ PortIdle
    /\ MoreIdle

SpecGid == InitGid /\ [][NextGid]_vars

NextDev == DeviceSpec

InitDev ==
    /\ EvInit /\ cb_id = [w \in WaitCtxs |-> UCS_CALLBACKQ_ID_NULL]
    /\ AhInit
    /\ GidIdle
    /\ SpecInit
    /\ PortIdle
    /\ MoreIdle

SpecDev == InitDev /\ [][NextDev]_vars

NextPort == PortCheck

InitPort ==
    /\ EvInit /\ cb_id = [w \in WaitCtxs |-> UCS_CALLBACKQ_ID_NULL]
    /\ AhInit
    /\ GidIdle
    /\ SpecIdle
    /\ PortInit
    /\ MoreIdle

SpecPort == InitPort /\ [][NextPort]_vars

NextLife ==
    \/ LifeStatsAlloc
    \/ LifeFcntl
    \/ LifeSetHandler
    \/ LifeInitAh
    \/ LifeInitEventsHash
    \/ LifeInitEventLock
    \/ life.pc = "ready" /\ \E o \in LifeCalls : Lock("app", o)
    \/ Register("app")
    \/ Unregister("app")
    \/ Unlock("app")
    \/ HandlerGet
    \/ HandlerHandle
    \/ HandlerHandleOutside
    \/ HandlerAck
    \/ LifeCleanupCheck
    \/ LifeDestroyEventsHash
    \/ LifeDestroyEventLock
    \/ LifeDestroyAh
    \/ LifeRemoveHandler
    \/ LifeFreeStats

InitLife ==
    /\ EvInit /\ cb_id = [w \in WaitCtxs |-> UCS_CALLBACKQ_ID_NULL]
    /\ AhInit
    /\ GidIdle
    /\ SpecIdle
    /\ PortIdle
    /\ LifeInit

SpecLife == InitLife /\ [][NextLife]_vars

NextHandler ==
    \/ HandlerGet
    \/ HandlerHandle
    \/ HandlerAck

InitHandler ==
    /\ async_events_hash \in HandlerRegistries
    /\ cb_id = [w \in WaitCtxs |-> UCS_CALLBACKQ_ID_NULL]
    /\ cbq = <<>>
    /\ ncb = 0
    /\ dev_failed = FALSE
    /\ async_event_lock = NoThread
    /\ pc = [t \in Threads |-> "idle"]
    /\ op = [t \in Threads |-> NoOp]
    /\ status = [t \in Threads |-> "none"]
    /\ registered = DOMAIN async_events_hash
    /\ trace = [k \in Keys |-> <<>>]
    /\ nsched = [k \in HandlerKeys |-> 0]
    /\ late = FALSE
    /\ fatal_ran = FALSE
    /\ assert_failed = FALSE
    /\ AhInit
    /\ GidIdle
    /\ SpecIdle
    /\ PortIdle
    /\ MoreIdle

SpecHandler == InitHandler /\ [][NextHandler]_vars

NextPci == SetPciBw

InitPci ==
    /\ EvInit /\ cb_id = [w \in WaitCtxs |-> UCS_CALLBACKQ_ID_NULL]
    /\ AhInit
    /\ GidIdle
    /\ SpecIdle
    /\ PortIdle
    /\ life = LifeReady
    /\ hdl = HdlIdle
    /\ td = TdIdle
    /\ fcall = NoFcall
    /\ PciInit

SpecPci == InitPci /\ [][NextPci]_vars

\* everything but fcall at rest
FcallIdle ==
    /\ EvInit /\ cb_id = [w \in WaitCtxs |-> UCS_CALLBACKQ_ID_NULL]
    /\ AhInit
    /\ GidIdle
    /\ SpecIdle
    /\ PortIdle
    /\ life = LifeReady
    /\ hdl = HdlIdle
    /\ pci = PciIdle
    /\ td = TdIdle

NextQueryPorts == QueryPorts

InitQueryPorts == FcallIdle /\ QueryPortsInit

SpecQueryPorts == InitQueryPorts /\ [][NextQueryPorts]_vars

NextQuery ==
    \/ DeviceQuery
    \/ DeviceLocality

InitQuery == FcallIdle /\ DeviceQueryInit

SpecQuery == InitQuery /\ [][NextQuery]_vars

(***************************************************************************)
(* The RNR NAK timer encoding                                              *)
(***************************************************************************)
\* uct_ib_qp_rnr_time_ms[], in hundredths of a millisecond; the value of
\* encoding i is at position i + 1
uct_ib_qp_rnr_time_ms ==
    << 65536,    1,    2,     3,     4,     6,     8,    12,
          16,   24,   32,    48,    64,    96,   128,   192,
         256,  384,  512,   768,  1024,  1536,  2048,  3072,
        4096, 6144, 8192, 12288, 16384, 24576, 32768, 49152 >>

\* the number of encodings (the size of the table)
UCT_IB_FABRIC_TIME_MAX == Len(uct_ib_qp_rnr_time_ms)

\* table value of encoding i, in the unit of time_ms: half a hundredth of a
\* millisecond, in which the mean of two table values is an integer
RnrTime(i) == 2 * uct_ib_qp_rnr_time_ms[i + 1]

\* avg_ms of encodings idx and next_index, in the unit of time_ms
RnrAvg(idx, next_index) ==
    uct_ib_qp_rnr_time_ms[idx + 1] + uct_ib_qp_rnr_time_ms[next_index + 1]

\* faulty variant: the encoding below the time is returned, not the nearest
rnr_fabric_time_rounds_down(time_ms) ==
    LET fit == {idx \in 1..(UCT_IB_FABRIC_TIME_MAX - 1) :
                   time_ms <= RnrTime((idx + 1) % UCT_IB_FABRIC_TIME_MAX)}
    IN IF fit = {} THEN 0
       ELSE CHOOSE idx \in fit : \A other \in fit : idx <= other

\* the for loop of uct_ib_to_rnr_fabric_time from idx on
RECURSIVE RnrLoop(_, _)
RnrLoop(time_ms, idx) ==
    IF idx < UCT_IB_FABRIC_TIME_MAX
    THEN LET next_index == (idx + 1) % UCT_IB_FABRIC_TIME_MAX
         IN IF time_ms <= RnrTime(next_index)
            THEN IF time_ms < RnrAvg(idx, next_index)
                 THEN idx
                 ELSE next_index
            ELSE RnrLoop(time_ms, idx + 1)
    ELSE 0

\* uct_ib_to_rnr_fabric_time on a time given in half hundredths of a
\* millisecond
uct_ib_to_rnr_fabric_time(time_ms) == RnrLoop(time_ms, 1)

\* times at, just below and just above every table value and every mean of
\* two adjacent table values, and times outside the table
RnrTimes ==
    {-2, 0, 400000}
    \cup UNION { {RnrTime(i) - 1, RnrTime(i), RnrTime(i) + 1} :
                    i \in 0..(UCT_IB_FABRIC_TIME_MAX - 1) }
    \cup UNION { {RnrAvg(i, (i + 1) % UCT_IB_FABRIC_TIME_MAX) - 1,
                  RnrAvg(i, (i + 1) % UCT_IB_FABRIC_TIME_MAX),
                  RnrAvg(i, (i + 1) % UCT_IB_FABRIC_TIME_MAX) + 1} :
                    i \in 1..(UCT_IB_FABRIC_TIME_MAX - 1) }

\* two calls of the encoder are to be made, on a time and on a longer one
RnrInit ==
    \E t \in RnrTimes : \E longer \in RnrTimes :
        /\ t < longer
        /\ fcall = [name |-> "rnr", t |-> t, longer |-> longer,
                    calls |-> 0, ret |-> 0, ret_longer |-> 0]

\* uct_ib_to_rnr_fabric_time is called, on the first time and then on the
\* longer one
ToRnrFabricTime ==
    /\ fcall.name = "rnr"
    /\ fcall.calls < 2
    /\ fcall' =
          IF fcall.calls = 0
          THEN [fcall EXCEPT !.calls = 1,
                             !.ret = uct_ib_to_rnr_fabric_time(fcall.t)]
          ELSE [fcall EXCEPT !.calls = 2,
                             !.ret_longer =
                                 uct_ib_to_rnr_fabric_time(fcall.longer)]
    /\ UNCHANGED <<evvars, ahvars, gidvars, specvars, portvars>>
    /\ UNCHANGED <<life, hdl, pci, td>>

NextRnr == ToRnrFabricTime

InitRnr == FcallIdle /\ RnrInit

SpecRnr == InitRnr /\ [][NextRnr]_vars

NextAhTeardown ==
    \/ \E t \in AhThreads : \E attr \in AhAttrs : AhCall(t, attr)
    \/ \E t \in AhThreads : AhLock(t)
    \/ \E t \in AhThreads : AhGet(t)
    \/ \E t \in AhThreads : AhCreate(t)
    \/ \E t \in AhThreads : AhPut(t)
    \/ \E t \in AhThreads : AhUnlock(t)
    \/ CleanupAhCached

SpecAhTeardown == InitAh /\ [][NextAhTeardown]_vars

\* the two locks together: the calls of the async-event registry on one key
\* with one wait context, and the calls of the address-handle cache for one
\* attribute record, under fair scheduling. The two subsystems share no
\* variable (every action of one leaves the variables of the other as they
\* are), so a run works on one of them while the other is in its initial
\* state.
LockCalls(t) ==
    {c \in Calls(t) : c.event.resource_id <= 1 /\ c.wait_ctx \in {NULL, "w1"}}

LockAttrs == {[dgid |-> 1, dlid |-> 1, sl |-> 0]}

NextLocks ==
    \/ AhInit /\ \E t \in Threads : \E o \in LockCalls(t) : Lock(t, o)
    \/ \E t \in Threads : Register(t)
    \/ \E t \in Threads : Wait(t)
    \/ \E t \in Threads : Unregister(t)
    \/ \E t \in Threads : Dispatch(t)
    \/ \E t \in Threads : DispatchFatal(t)
    \/ \E t \in Threads : Unlock(t)
    \/ EvInit /\ \E t \in AhThreads : \E attr \in LockAttrs : AhCall(t, attr)
    \/ \E t \in AhThreads : AhLock(t)
    \/ \E t \in AhThreads : AhGet(t)
    \/ \E t \in AhThreads : AhCreate(t)
    \/ \E t \in AhThreads : AhPut(t)
    \/ \E t \in AhThreads : AhUnlock(t)

\* every thread keeps running; a thread that spins on the handle-cache lock
\* gets it if the lock is free again and again
FairLocks ==
    /\ \A t \in Threads :
          /\ WF_vars(Register(t) \/ Wait(t) \/ Unregister(t) \/ Dispatch(t)
                       \/ DispatchFatal(t))
          /\ WF_vars(Unlock(t))
    /\ \A t \in AhThreads :
          /\ SF_vars(AhLock(t))
          /\ WF_vars(AhGet(t) \/ AhCreate(t) \/ AhPut(t))
          /\ WF_vars(AhUnlock(t))

SpecLocks == InitAh /\ [][NextLocks]_vars /\ FairLocks

\* the handler next to an application thread that makes one call at a time:
\* register, wait and unregister of a key, and create_ah_cached
StatsCalls ==
    {c \in Calls("app") : c.event.resource_id <= 1 /\ c.wait_ctx \in {NULL, "w1"}}

NextStats ==
    \/ HandlerGet
    \/ HandlerHandle
    \/ HandlerAck
    \/ ah_pc[1] = "idle" /\ \E o \in StatsCalls : Lock("app", o)
    \/ Register("app")
    \/ Wait("app")
    \/ Unregister("app")
    \/ Unlock("app")
    \/ \E id \in DOMAIN cbq : Deliver(id)
    \/ pc["app"] = "idle" /\ \E attr \in LockAttrs : AhCall(1, attr)
    \/ AhLock(1)
    \/ AhGet(1)
    \/ AhCreate(1)
    \/ AhPut(1)
    \/ AhUnlock(1)

SpecStats == InitAh /\ [][NextStats]_vars

(***************************************************************************)
(* Properties of the async-event registry (checked under Spec)             *)
(***************************************************************************)
\* the queued callbacks scheduled for the current registration of key k
QueuedFor(q, k) == {id \in DOMAIN q : q[id].event = k /\ ~q[id].cancelled}

\* thread t is between the body of a call named "name" and its unlock
Returning(t, name) == pc[t] = "rel" /\ op[t].name = name

\* thread t executes the body of a call named "name" in this step
Body(t, name) == pc[t] = "cs" /\ op[t].name = name /\ pc'[t] = "rel"

\* C1: on a key that was registered and is idle, dispatch followed by wait
\* and wait followed by dispatch both leave exactly one callback scheduled,
\* the one of the waiter given to wait.
C1_OrderIndependence ==
    [][\A k \in Keys :
          ( /\ trace'[k] # trace[k]
            /\ \/ trace'[k] = <<"dispatch", "wait">>
               \/ trace'[k] = <<"wait", "dispatch">> )
          => /\ nsched'[k] = 1
             /\ Cardinality(QueuedFor(cbq', k)) = 1
             /\ \A id \in QueuedFor(cbq', k) :
                   /\ cbq'[id].wait_ctx = async_events_hash'[k].wait_ctx
                   /\ cb_id'[cbq'[id].wait_ctx] = id]_vars

\* both orders have happened, one on each key, with one callback each
C1_Witness ==
    \E k1 \in Keys, k2 \in Keys :
        /\ trace[k1] = <<"dispatch", "wait">>
        /\ trace[k2] = <<"wait", "dispatch">>
        /\ nsched[k1] = 1
        /\ nsched[k2] = 1

\* C2: a wait on a key whose attached waiter has a callback scheduled returns
\* Busy and leaves the entry (waiter, fired), the callback queue and every
\* callback id, that of the refused wait context included, as they were.
C2_BusyChangesNothing ==
    [][\A t \in Threads :
          ( /\ Body(t, "wait")
            /\ uct_ib_device_async_event_inprogress(
                   EvState, async_events_hash[op[t].event]) )
          => /\ status'[t] = "UCS_ERR_BUSY"
             /\ async_events_hash' = async_events_hash
             /\ cbq' = cbq
             /\ ncb' = ncb
             /\ cb_id' = cb_id]_vars

\* a second wait context was refused while the callback of the first is
\* queued and has not been invoked
C2_Witness ==
    \E t \in Threads :
        /\ Returning(t, "wait")
        /\ status[t] = "UCS_ERR_BUSY"
        /\ async_events_hash[op[t].event].wait_ctx # op[t].wait_ctx
        /\ QueuedFor(cbq, op[t].event) # {}
        /\ trace[op[t].event] = <<"dispatch", "wait">>

\* C3: after unregister the key has no entry, no callback scheduled for it
\* is left in the callback queue, and none is invoked afterwards.
C3_UnregisterCancels ==
    /\ \A t \in Threads :
          Returning(t, "unregister") =>
              op[t].event \notin DOMAIN async_events_hash
    /\ \A id \in DOMAIN cbq : ~cbq[id].cancelled
    /\ ~late

\* C4: when dispatch_fatal has run, every registered key with a waiter
\* attached has exactly one callback of that waiter scheduled.
C4_FatalSchedulesOnce ==
    \A t \in Threads :
        Returning(t, "dispatch_fatal") =>
            \A k \in DOMAIN async_events_hash :
                async_events_hash[k].wait_ctx # NULL =>
                    Cardinality({id \in QueuedFor(cbq, k) :
                        cbq[id].wait_ctx = async_events_hash[k].wait_ctx}) = 1

\* C5 as stated: once dispatch_fatal has run the failed flag is set, and a
\* register of a key that has no entry succeeds and creates an idle entry.
C5_RegisterAfterFatalSucceeds ==
    /\ fatal_ran => dev_failed
    /\ \A t \in Threads :
          (Returning(t, "register") /\ fatal_ran) =>
              /\ status[t] = "UCS_OK"
              /\ op[t].event \in DOMAIN async_events_hash
              /\ async_events_hash[op[t].event] =
                     [wait_ctx |-> NULL, fired |-> FALSE]

\* C5 (amended): once dispatch_fatal has run the failed flag is set in every
\* later state, and a register of a key that has no entry succeeds and creates
\* an idle entry unless the registry cannot grow: then it returns NoMemory and
\* the key has no entry.
C5_RegisterAfterFatal ==
    /\ fatal_ran => dev_failed
    /\ \A t \in Threads :
          (Returning(t, "register") /\ fatal_ran) =>
              \/ /\ status[t] = "UCS_OK"
                 /\ op[t].event \in DOMAIN async_events_hash
                 /\ async_events_hash[op[t].event] =
                        [wait_ctx |-> NULL, fired |-> FALSE]
              \/ /\ status[t] = "UCS_ERR_NO_MEMORY"
                 /\ op[t].event \notin DOMAIN async_events_hash

\* a key was registered after dispatch_fatal had fired another key
C5_Witness ==
    \E t \in Threads :
        /\ Returning(t, "register")
        /\ fatal_ran
        /\ dev_failed
        /\ status[t] = "UCS_OK"
        /\ \E k \in DOMAIN async_events_hash : async_events_hash[k].fired

\* C8: the fired flag of a key stays set as long as the key keeps its entry,
\* and a wait accepted on a fired key schedules the callback of its waiter in
\* the same call.
C8_FiredIsKept ==
    [][ /\ \A k \in Keys :
              ( /\ k \in DOMAIN async_events_hash
                /\ async_events_hash[k].fired
                /\ k \in DOMAIN async_events_hash' )
              => async_events_hash'[k].fired
        /\ \A t \in Threads :
              ( /\ Body(t, "wait")
                /\ async_events_hash[op[t].event].fired
                /\ status'[t] = "UCS_OK" )
              => /\ ncb' = ncb + 1
                 /\ ncb' \in DOMAIN cbq'
                 /\ cbq'[ncb'].wait_ctx = op[t].wait_ctx
                 /\ cbq'[ncb'].event = op[t].event
                 /\ cb_id'[op[t].wait_ctx] = ncb' ]_vars

\* a wait was accepted on a key that dispatch_fatal had fired before, and its
\* callback is queued
C8_Witness ==
    \E t \in Threads :
        /\ Returning(t, "wait")
        /\ status[t] = "UCS_OK"
        /\ trace[op[t].event] = <<"dispatch_fatal", "wait">>
        /\ async_events_hash[op[t].event].fired
        /\ cb_id[op[t].wait_ctx] \in QueuedFor(cbq, op[t].event)

\* C9: the keys of the registry are the keys registered and not unregistered
\* since: a successful register adds its key, unregister removes its key, and
\* no other call (a failed register, wait, dispatch, dispatch_fatal) changes
\* the set of keys.
C9_RegistryIsRegistered ==
    /\ async_event_lock = NoThread => DOMAIN async_events_hash = registered
    /\ \A t \in Threads :
          /\ pc[t] = "cs" => DOMAIN async_events_hash = registered
          /\ pc[t] = "rel" =>
                DOMAIN async_events_hash =
                    IF op[t].name = "register" /\ status[t] = "UCS_OK"
                    THEN registered \cup {op[t].event}
                    ELSE IF op[t].name = "unregister"
                         THEN registered \ {op[t].event}
                         ELSE registered

\* a dispatch of a key without entry has run while another key is registered
C9_Witness ==
    \E t \in Threads :
        /\ Returning(t, "dispatch")
        /\ op[t].event \notin DOMAIN async_events_hash
        /\ registered # {}
        /\ DOMAIN async_events_hash = registered

(***************************************************************************)
(* Properties of the address-handle cache (checked under SpecAh)           *)
(***************************************************************************)
\* the handles returned with UCS_OK for attributes a
GivenHandles(a) == {g[2] : g \in ah_given[a]}

\* the threads that got a handle for attributes a
GivenThreads(a) == {g[1] : g \in ah_given[a]}

\* what C6 promises for every attribute record
Coalesced ==
    /\ \A a \in AhAttrs :
          /\ ah_ncreate[a] <= 1
          /\ Cardinality(GivenHandles(a)) <= 1
    /\ \A t \in AhThreads :
          ah_pc[t] = "unlock" => ah_call[t].status = "UCS_OK"

C7_NoCollision ==
    /\ \A a \in DOMAIN ah_hash : ah_for[ah_hash[a]] = a
    /\ \A a \in DOMAIN ah_hash, b \in DOMAIN ah_hash :
          a # b => ah_hash[a] # ah_hash[b]
    /\ \A t \in AhThreads :
          (ah_pc[t] = "unlock" /\ ah_call[t].status = "UCS_OK") =>
              ah_for[ah_call[t].ah_p] = ah_call[t].attr

\* a request is served from the cache while the cache also holds a record
\* with the same hash value
C7_Witness ==
    \E t \in AhThreads :
        /\ ah_pc[t] = "unlock"
        /\ ah_call[t].status = "UCS_OK"
        /\ ah_ncreate[ah_call[t].attr] = 1
        /\ GivenHandles(ah_call[t].attr) # {}
        /\ \E b \in DOMAIN ah_hash :
              /\ b # ah_call[t].attr
              /\ uct_ib_kh_ah_hash_func(b) =
                     uct_ib_kh_ah_hash_func(ah_call[t].attr)

\* C10: a call whose insertion fails destroys the handle it created, returns
\* NoMemory and leaves the cache as it was; and whenever no call is between
\* creation and insertion, every live handle is held by exactly one cache
\* entry.
C10_NoLeak ==
    [][ /\ \A t \in AhThreads :
              ( /\ ah_pc[t] = "put"
                /\ ah_pc'[t] = "unlock"
                /\ ah_call[t].attr \notin DOMAIN ah_hash' )
              => /\ ah_call'[t].status = "UCS_ERR_NO_MEMORY"
                 /\ ah_call[t].ah_p \in ah_live
                 /\ ah_call[t].ah_p \notin ah_live'
                 /\ ah_hash' = ah_hash
        /\ (\A t \in AhThreads : ah_pc'[t] # "put") =>
              \A h \in ah_live' :
                  Cardinality({a \in DOMAIN ah_hash' : ah_hash'[a] = h}) = 1
      ]_vars

\* an insertion failed while the cache holds another handle
C10_Witness ==
    \E t \in AhThreads :
        /\ ah_pc[t] = "unlock"
        /\ ah_call[t].status = "UCS_ERR_NO_MEMORY"
        /\ ah_live # {}
        /\ DOMAIN ah_hash # {}

\* C11: a call whose hardware creation fails returns EndpointTimeout when
\* errno is ETIMEDOUT and InvalidAddr otherwise, leaves the cache and the live
\* handles as they were, and releases the lock when it returns; a request that
\* finds its attributes missing from the cache goes to hardware creation,
\* also after an earlier creation for them has failed.
C11_CreateFailureNotCached ==
    [][ /\ \A t \in AhThreads :
              ( /\ ah_pc[t] = "create"
                /\ ah_pc'[t] = "unlock" )
              => /\ ah_call'[t].status =
                        IF ah_call'[t].errno = "ETIMEDOUT"
                        THEN "UCS_ERR_ENDPOINT_TIMEOUT"
                        ELSE "UCS_ERR_INVALID_ADDR"
                 /\ ah_hash' = ah_hash
                 /\ ah_call[t].attr \notin DOMAIN ah_hash'
                 /\ ah_live' = ah_live
        /\ \A t \in AhThreads :
              ( /\ ah_pc[t] = "unlock"
                /\ ah_pc'[t] = "idle"
                /\ ah_call[t].status \in {"UCS_ERR_ENDPOINT_TIMEOUT",
                                          "UCS_ERR_INVALID_ADDR"} )
              => /\ ah_lock'.count = 0
                 /\ ah_given' = ah_given
        /\ \A t \in AhThreads :
              ( /\ ah_pc[t] = "get"
                /\ ah_pc'[t] # "get"
                /\ ah_call[t].attr \notin DOMAIN ah_hash )
              => ah_pc'[t] = "create"
      ]_vars

\* a creation has failed and yet every attribute record is cached after one
\* successful creation and no failed insertion: a record that is cached is
\* found by every later request, so the failed creation came before the
\* successful one for the same record
C11_Witness ==
    /\ ah_create_failed
    /\ ~ah_put_failed
    /\ DOMAIN ah_hash = AhAttrs
    /\ \A a \in AhAttrs : ah_ncreate[a] = 1 /\ GivenHandles(a) # {}
    /\ \A t \in AhThreads : ah_pc[t] = "idle"

(***************************************************************************)
(* Properties of the GID selection (checked under SpecGid)                 *)
(***************************************************************************)
\* the RoCE version a table entry announces (RoCE v1 without a type file)
EntryVer(e) == IF e.type = GidTypeV2 THEN "UCT_IB_DEVICE_ROCE_V2"
               ELSE "UCT_IB_DEVICE_ROCE_V1"

\* the address family of the gid of a table entry
EntryFamily(e) == IF e.gid \in {GidIPv4, GidIPv4Mcast} THEN "AF_INET"
                  ELSE "AF_INET6"

\* the tier of a table entry: 1 (v2,IPv4), 2 (v2,IPv6), 3 (v1,IPv4), 4 (v1,IPv6)
TierOf(e) ==
    (IF EntryVer(e) = "UCT_IB_DEVICE_ROCE_V2" THEN 0 ELSE 2)
    + (IF EntryFamily(e) = "AF_INET" THEN 1 ELSE 2)

\* the gid of the entry cannot be queried
QueryFails(e) == ~e.query_ok

\* the type file of the entry is read and holds no known type
ParseFails(e) == e.query_ok /\ e.type = GidTypeV15

\* the type file of the entry cannot be read
TypeUnreadable(e) == e.query_ok /\ e.type = GidTypeNone

\* every entry of the table is read without error
AllReadable ==
    \A i \in DOMAIN gid_tbl : ~QueryFails(gid_tbl[i]) /\ ~ParseFails(gid_tbl[i])

\* positions (from 1) of the entries an address handle can be created for
Operational == {i \in DOMAIN gid_tbl : gid_tbl[i].live}

\* the indices probed, in order
Probes == SelectSeq(gid_log, LAMBDA x : x[1] = "probe")

\* the scan is about to visit the table entry at gid_i
Visiting == gid_pc = "loop" /\ prio_idx < priorities_arr_len
            /\ gid_i < gid_tbl_len

\* C12: with every table entry readable and some entry operational,
\* select_gid returns success with an operational entry of the best tier
\* (v2,IPv4) < (v2,IPv6) < (v1,IPv4) < (v1,IPv6) that has one, and among
\* those the one with the lowest index.
C12_BestTierLowestIndex ==
    (gid_pc = "out" /\ AllReadable /\ Operational # {}) =>
        /\ gid_status = "UCS_OK"
        /\ \E i \in Operational :
              /\ gid_info = [gid_index |-> i - 1,
                             ver |-> EntryVer(gid_tbl[i]),
                             addr_family |-> EntryFamily(gid_tbl[i])]
              /\ \A j \in Operational :
                    \/ TierOf(gid_tbl[j]) > TierOf(gid_tbl[i])
                    \/ TierOf(gid_tbl[j]) = TierOf(gid_tbl[i]) /\ j >= i

\* index 1 (v2, IPv4) was chosen although the entry at index 0 is operational
\* too, in a lower tier
C12_Witness ==
    /\ gid_pc = "out"
    /\ Len(gid_tbl) = 2
    /\ Operational = {1, 2}
    /\ TierOf(gid_tbl[1]) = 3
    /\ TierOf(gid_tbl[2]) = 1
    /\ gid_info.ver = "UCT_IB_DEVICE_ROCE_V2"
    /\ gid_info.addr_family = "AF_INET"
    /\ gid_info.gid_index = 1

\* C13: with every table entry readable and no entry operational (an empty
\* table included), select_gid returns success with index 0, RoCE v1, IPv4,
\* and the only probes made are the one of each entry in its own tier: none
\* for the default.
C13_DefaultWithoutProbe ==
    (gid_pc = "out" /\ AllReadable /\ Operational = {}) =>
        /\ gid_status = "UCS_OK"
        /\ gid_info = [gid_index |-> 0, ver |-> "UCT_IB_DEVICE_ROCE_V1",
                       addr_family |-> "AF_INET"]
        /\ Len(Probes) = Len(gid_tbl)
        /\ \A i \in DOMAIN gid_tbl :
              \E n \in DOMAIN Probes : Probes[n] = <<"probe", i - 1>>

\* the default was returned for a table whose entries were all probed and
\* found down, the entry at index 0 being a RoCE v2 one
C13_Witness ==
    /\ gid_pc = "out"
    /\ gid_status = "UCS_OK"
    /\ Len(gid_tbl) = 2
    /\ AllReadable
    /\ Operational = {}
    /\ TierOf(gid_tbl[1]) = 1
    /\ gid_info.gid_index = 0
    /\ gid_info.ver = "UCT_IB_DEVICE_ROCE_V1"
    /\ Len(Probes) = 2

\* C14 as stated: when the scan comes to an entry whose gid cannot be
\* queried, whose type file cannot be read or whose type cannot be parsed,
\* select_gid stops there with an error and writes nothing.
C14_ReadOrParseFailureAborts ==
    [][ ( /\ Visiting
          /\ \/ QueryFails(gid_tbl[gid_i + 1])
             \/ TypeUnreadable(gid_tbl[gid_i + 1])
             \/ ParseFails(gid_tbl[gid_i + 1]) )
        => /\ gid_pc' = "out"
           /\ gid_status' = "UCS_ERR_INVALID_PARAM"
           /\ gid_info' = GidInfoUnwritten ]_vars

\* C14 (amended): when the scan comes to an entry whose gid cannot be queried
\* or whose type string cannot be parsed, select_gid stops there: it returns
\* the error of that entry, queries and probes nothing further, does not
\* write the default and leaves the caller's output unwritten. An entry whose
\* type file cannot be read is no failure.
C14_QueryOrParseFailureAborts ==
    [][ /\ ( /\ Visiting
             /\ \/ QueryFails(gid_tbl[gid_i + 1])
                \/ ParseFails(gid_tbl[gid_i + 1]) )
           => /\ gid_pc' = "out"
              /\ gid_status' = "UCS_ERR_INVALID_PARAM"
              /\ gid_info = GidInfoUnwritten
              /\ gid_info' = GidInfoUnwritten
              /\ gid_log' = Append(gid_log, <<"query", gid_i>>)
        /\ gid_pc = "out" => FALSE ]_vars

\* the scan stopped at the unparsable entry at index 1, in the first tier,
\* after an entry that is operational in a lower tier
C14_Witness ==
    /\ gid_pc = "out"
    /\ gid_status = "UCS_ERR_INVALID_PARAM"
    /\ prio_idx = 0
    /\ gid_i = 1
    /\ ParseFails(gid_tbl[2])
    /\ gid_tbl[1].live
    /\ TierOf(gid_tbl[1]) = 3
    /\ gid_info = GidInfoUnwritten
    /\ gid_log = <<(<<"query", 0>>), (<<"query", 1>>)>>

(***************************************************************************)
(* Properties of the device catalog (checked under SpecDev)                *)
(***************************************************************************)
\* positions of the custom entries with the PCI id of the device
CustomMatches ==
    {i \in DOMAIN custom_devices : custom_devices[i].pci_id = dev_pci_id}

\* positions of the named built-in entries with the PCI id of the device
BuiltinMatches ==
    {i \in DOMAIN uct_ib_builtin_device_specs :
        /\ uct_ib_builtin_device_specs[i].name # NULL
        /\ uct_ib_builtin_device_specs[i].pci_id = dev_pci_id}

\* C17: the lookup returns the first custom entry with the PCI id of the
\* device when there is one, whatever the built-in table holds for that id;
\* otherwise the first built-in entry with that id, in declaration order;
\* and it changes neither the custom list nor the device.
C17_FirstMatchCustomFirst ==
    [][ spec_ret' # spec_ret =>
          /\ CustomMatches # {} =>
                /\ spec_ret'.list = "custom"
                /\ spec_ret'.index + 1 \in CustomMatches
                /\ \A j \in CustomMatches : j >= spec_ret'.index + 1
                /\ spec_ret'.spec = custom_devices[spec_ret'.index + 1]
          /\ (CustomMatches = {} /\ BuiltinMatches # {}) =>
                /\ spec_ret'.list = "builtin"
                /\ spec_ret'.index + 1 \in BuiltinMatches
                /\ \A j \in BuiltinMatches : j >= spec_ret'.index + 1
                /\ spec_ret'.spec =
                       uct_ib_builtin_device_specs[spec_ret'.index + 1]
          /\ custom_devices' = custom_devices
          /\ dev_pci_id' = dev_pci_id ]_vars

\* the first of two custom entries for a ConnectX-3 was returned, not the
\* second one and not the built-in entry of that device
C17_Witness ==
    /\ spec_ret.list = "custom"
    /\ spec_ret.index = 0
    /\ Cardinality(CustomMatches) = 2
    /\ custom_devices[1] # custom_devices[2]
    /\ BuiltinMatches # {}
    /\ spec_ret.spec = custom_devices[1]


(***************************************************************************)
(* Claims about the port check                                             *)
(***************************************************************************)
\* the conditions of the port check, stated on the checked port, in the
\* order the specification lists them
PortInRange ==
    port_args.port_num \in
        port_args.first_port .. (port_args.first_port + port_args.num_ports - 1)

PortHasGids == Len(port_args.gid_tbl) > 0

PortActive == port_args.state = "IBV_PORT_ACTIVE"

PortNotIwarp == port_args.transport_type # "IBV_TRANSPORT_IWARP"

PortLinkOk ==
    "UCT_IB_DEVICE_FLAG_LINK_IB" \in port_args.flags
        => port_args.link_layer = "IBV_LINK_LAYER_INFINIBAND"

PortDcOk == "UCT_IB_DEVICE_FLAG_DC" \in port_args.flags => port_args.has_dc

\* positions of the named built-in entries with the PCI id of the checked
\* device
PortCatalogMatches ==
    {i \in DOMAIN uct_ib_builtin_device_specs :
        /\ uct_ib_builtin_device_specs[i].name # NULL
        /\ uct_ib_builtin_device_specs[i].pci_id = port_args.pci_id}

PortPrmOk ==
    \A f \in {"UCT_IB_DEVICE_FLAG_MLX4_PRM", "UCT_IB_DEVICE_FLAG_MLX5_PRM"} :
        f \in port_args.flags
            => \E i \in PortCatalogMatches :
                  /\ \A j \in PortCatalogMatches : i <= j
                  /\ f \in uct_ib_builtin_device_specs[i].flags

PortConds ==
    <<PortInRange, PortHasGids, PortActive, PortNotIwarp, PortLinkOk,
      PortDcOk, PortPrmOk>>

PortReasons ==
    <<"UCS_ERR_NO_DEVICE", "UCS_ERR_UNSUPPORTED", "UCS_ERR_UNREACHABLE",
      "UCS_ERR_UNSUPPORTED", "UCS_ERR_UNSUPPORTED", "UCS_ERR_UNSUPPORTED",
      "UCS_ERR_UNSUPPORTED">>

\* the GID table index the configuration selects
PortGidIndex ==
    IF port_args.gid_index = UCS_ULUNITS_AUTO THEN 0 ELSE port_args.gid_index

\* the selected GID can be read and is a valid address
PortGidValid ==
    /\ PortGidIndex < Len(port_args.gid_tbl)
    /\ LET e == port_args.gid_tbl[PortGidIndex + 1]
       IN /\ e.query_ok
          /\ e.type \in {GidTypeNone, GidTypeV1, GidTypeV2}
          /\ e.gid # GidZero

\* a subnet filter is configured, the port is an InfiniBand port and the
\* prefix of the selected GID is not the filter's
PortSubnetMismatch ==
    /\ port_args.check_subnet_filter
    /\ port_args.link_layer = "IBV_LINK_LAYER_INFINIBAND"
    /\ PortGidIndex < Len(port_args.gid_tbl)
    /\ <<port_args.gid_tbl[PortGidIndex + 1].gid[1],
         port_args.gid_tbl[PortGidIndex + 1].gid[2]>> # port_args.subnet_filter

\* C15: the port check returns the reason of the first failing condition in
\* the order range, GID table, active, transport, link layer, DC, PRM flags,
\* whatever later conditions do; a port that passes these and fails the
\* subnet filter is rejected, as unsupported when its GID was read.
C15_FirstFailingCondition ==
    port_status # "none" =>
        /\ \A k \in 1..Len(PortConds) :
              (~PortConds[k] /\ \A j \in 1..(k - 1) : PortConds[j])
                  => port_status = PortReasons[k]
        /\ ((\A k \in 1..Len(PortConds) : PortConds[k]) /\ PortSubnetMismatch)
              => /\ port_status # "UCS_OK"
                 /\ PortGidValid => port_status = "UCS_ERR_UNSUPPORTED"

\* a port without GIDs that is also down, on an iWARP device, without the
\* required DC support, was reported unsupported
C15_Witness ==
    /\ port_status = "UCS_ERR_UNSUPPORTED"
    /\ PortInRange /\ ~PortHasGids /\ ~PortActive /\ ~PortNotIwarp /\ ~PortDcOk

\* C16: with no subnet filter configured, a port that passes range, GID
\* table, active, transport, link layer, DC and PRM flags is reported ok,
\* whatever its GID table entries hold.
C16_NoFilterNoGidCondition ==
    (/\ port_status # "none"
     /\ ~port_args.check_subnet_filter
     /\ \A k \in 1..Len(PortConds) : PortConds[k])
        => port_status = "UCS_OK"


(***************************************************************************)
(* Further properties of the async-event registry (checked under Spec)     *)
(***************************************************************************)
\* the registry is empty and no callback is queued
TripEmpty == DOMAIN async_events_hash = {} /\ DOMAIN cbq = {}

\* key k alone is registered, idle, with nothing scheduled
TripRegistered(k) ==
    /\ DOMAIN async_events_hash = {k}
    /\ async_events_hash[k] = [wait_ctx |-> NULL, fired |-> FALSE]
    /\ DOMAIN cbq = {}
    /\ nsched[k] = 0

\* key k alone is registered, w waits for it, nothing is scheduled
TripWaiting(k, w) ==
    /\ DOMAIN async_events_hash = {k}
    /\ async_events_hash[k] = [wait_ctx |-> w, fired |-> FALSE]
    /\ DOMAIN cbq = {}
    /\ nsched[k] = 0
    /\ cb_id[w] = UCS_CALLBACKQ_ID_NULL

\* key k alone is registered and fired, and the callback of w has been
\* scheduled once: it is the only callback in the queue
TripScheduled(k, w) ==
    /\ DOMAIN async_events_hash = {k}
    /\ async_events_hash[k] = [wait_ctx |-> w, fired |-> TRUE]
    /\ nsched[k] = 1
    /\ Cardinality(DOMAIN cbq) = 1
    /\ \A id \in DOMAIN cbq :
          /\ cbq[id] = [wait_ctx |-> w, event |-> k, cancelled |-> FALSE]
          /\ cb_id[w] = id

\* C18: from an empty registry a successful register(k) leaves k alone in
\* the registry (size 1), idle; wait(k, ctx) then returns OK and attaches ctx
\* without scheduling; dispatch(k) then schedules the callback of ctx once;
\* its delivery changes neither the registry nor the queue; unregister(k)
\* then leaves the registry as it was before register (empty, size 0) with
\* no callback queued and none cancelled too late.
C18_RoundTrip ==
    [][\A t \in Threads : \A w \in WaitCtxs :
          LET k == op[t].event
          IN /\ (TripEmpty /\ Body(t, "register") /\ status'[t] = "UCS_OK")
                   => TripRegistered(k)'
             /\ (TripRegistered(k) /\ Body(t, "wait") /\ op[t].wait_ctx = w)
                   => /\ status'[t] = "UCS_OK"
                      /\ TripWaiting(k, w)'
             /\ (TripWaiting(k, w) /\ Body(t, "dispatch"))
                   => /\ TripScheduled(k, w)'
                      /\ ncb' = ncb + 1
             /\ (TripScheduled(k, w) /\ op[t].name = "unregister"
                    /\ \A u \in Threads : pc'[u] = pc[u])
                   => /\ TripScheduled(k, w)'
                      /\ late' = late
             /\ (TripScheduled(k, w) /\ Body(t, "unregister"))
                   => /\ TripEmpty'
                      /\ async_events_hash' = <<>>
                      /\ \A id \in DOMAIN cbq' : ~cbq'[id].cancelled]_vars

\* register, wait and dispatch of a key have run in this order, the one
\* callback is queued, and the unregister of the key holds the lock
C18_Witness ==
    \E t \in Threads : \E w \in WaitCtxs :
        /\ pc[t] = "cs"
        /\ op[t].name = "unregister"
        /\ TripScheduled(op[t].event, w)
        /\ trace[op[t].event] = <<"wait", "dispatch">>
        /\ ncb = 1
        /\ ~assert_failed


\* the queued callbacks of wait context w
QueuedOf(q, w) == {id \in DOMAIN q : q[id].wait_ctx = w}

\* C19: the callback of a waiter is scheduled only while the callback id of
\* that waiter is unset (the assertion of schedule_callback holds at every
\* call), and no waiter has two scheduled callbacks in the queue.
C19_ScheduleOnlyWhenUnset ==
    /\ ~assert_failed
    /\ \A w \in WaitCtxs : Cardinality(QueuedOf(cbq, w)) <= 1


\* a callback of wait context w is queued for the current registration of k
Honoured(q, k, w) == \E id \in QueuedFor(q, k) : q[id].wait_ctx = w

\* C20: a wait context accepted for a registered key is honoured: a
\* dispatch of the key, and dispatch_fatal, leave the callback of the
\* attached waiter scheduled, and a later successful wait on the key does
\* not drop an accepted waiter of the key: that waiter stays attached or has
\* its callback scheduled.
C20_AcceptedWaitHonoured ==
    [][\A t \in Threads :
          LET k == op[t].event
          IN /\ ( /\ Body(t, "dispatch")
                  /\ k \in DOMAIN async_events_hash
                  /\ async_events_hash[k].wait_ctx # NULL )
                => Honoured(cbq', k, async_events_hash[k].wait_ctx)
             /\ Body(t, "dispatch_fatal")
                => \A e \in DOMAIN async_events_hash :
                      async_events_hash[e].wait_ctx # NULL
                          => Honoured(cbq', e, async_events_hash[e].wait_ctx)
             /\ ( /\ Body(t, "wait")
                  /\ status'[t] = "UCS_OK"
                  /\ async_events_hash[k].wait_ctx # NULL )
                => \/ async_events_hash'[k].wait_ctx
                          = async_events_hash[k].wait_ctx
                   \/ Honoured(cbq', k, async_events_hash[k].wait_ctx)]_vars


\* C22: a thread is inside register, wait, unregister, dispatch or
\* dispatch_fatal only while it holds the async-event lock, so at most one
\* thread is inside at a time, and every change of the registry, of a
\* callback id, of the callback queue or of the failed flag is made by the
\* one step of the thread that holds the lock, no other thread moving.
C22_RegistryUnderLock ==
    [][ /\ \A t \in Threads :
              /\ pc[t] \in {"cs", "rel"} => async_event_lock = t
              /\ pc'[t] \in {"cs", "rel"} => async_event_lock' = t
        /\ ( \/ async_events_hash' # async_events_hash
             \/ cb_id' # cb_id
             \/ cbq' # cbq
             \/ dev_failed' # dev_failed )
           => \E t \in Threads :
                 /\ async_event_lock = t
                 /\ async_event_lock' = t
                 /\ pc[t] = "cs"
                 /\ pc'[t] = "rel"
                 /\ \A u \in Threads \ {t} : pc'[u] = pc[u] /\ pc[u] = "idle"
      ]_vars

\* a dispatch has fired a key and scheduled its waiter, and still holds the
\* lock, while the application thread is outside
C22_Witness ==
    \E t \in Threads :
        /\ Returning(t, "dispatch")
        /\ async_event_lock = t
        /\ \A u \in Threads \ {t} : pc[u] = "idle"
        /\ op[t].event \in DOMAIN async_events_hash
        /\ async_events_hash[op[t].event].fired
        /\ async_events_hash[op[t].event].wait_ctx # NULL
        /\ cb_id[async_events_hash[op[t].event].wait_ctx] \in DOMAIN cbq


(***************************************************************************)
(* Lock discipline (checked under SpecLocks)                               *)
(***************************************************************************)
\* the body of the call thread t is in stays within the bound on the number
\* of callbacks
WithinCap(t) ==
    IF op[t].name = "wait"
    THEN uct_ib_device_async_event_wait(
             EvState, op[t].event, op[t].wait_ctx).st.ncb <= MaxCbId
    ELSE IF op[t].name = "dispatch"
    THEN uct_ib_device_async_event_dispatch_nolock(
             EvState, op[t].event).ncb <= MaxCbId
    ELSE IF op[t].name = "dispatch_fatal"
    THEN \A order \in Orders(DOMAIN async_events_hash) :
             uct_ib_device_async_event_dispatch_fatal(
                 EvState, order).ncb <= MaxCbId
    ELSE TRUE

\* who holds which lock
LockDiscipline ==
    /\ \A t \in Threads :
          /\ pc[t] = "idle" => async_event_lock # t
          /\ pc[t] # "idle" => async_event_lock = t
    /\ \A t \in AhThreads :
          /\ ah_pc[t] \in {"idle", "lock"} =>
                ~(ah_lock.owner = t /\ ah_lock.count > 0)
          /\ ah_pc[t] \in {"get", "create", "put", "unlock"} =>
                ah_lock = [owner |-> t, count |-> 1]

C21_HandlerWithinLifetime == ~hdl.outside

HandlerHandles(event_type) ==
    /\ hdl.pc = "got"
    /\ hdl'.pc = "handled"
    /\ hdl.event.event_type = event_type

\* the number of callbacks key k has one more of after a dispatch of it
Scheduled(k) ==
    IF k \in DOMAIN async_events_hash /\ async_events_hash[k].wait_ctx # NULL
    THEN 1
    ELSE 0

\* C29: handling a hardware notification changes the registry for two event
\* types only: a last-WQE-reached event dispatches its own key and no other,
\* a device-fatal event sets the failed flag and dispatches every registered
\* key; every other event leaves the entries, the failed flag and the
\* callbacks as they are, also when a key of its type is registered
C29_HandleFrame ==
    [][ /\ HandlerHandles("QP_LAST_WQE_REACHED") =>
              /\ dev_failed' = dev_failed
              /\ DOMAIN async_events_hash' = DOMAIN async_events_hash
              /\ \A k \in DOMAIN async_events_hash :
                    async_events_hash'[k] =
                        IF k = hdl.event
                        THEN [async_events_hash[k] EXCEPT !.fired = TRUE]
                        ELSE async_events_hash[k]
              /\ \A k \in HandlerKeys :
                    nsched'[k] = nsched[k]
                                     + (IF k = hdl.event THEN Scheduled(k) ELSE 0)
        /\ HandlerHandles("DEVICE_FATAL") =>
              /\ dev_failed'
              /\ DOMAIN async_events_hash' = DOMAIN async_events_hash
              /\ \A k \in DOMAIN async_events_hash :
                    async_events_hash'[k] =
                        [async_events_hash[k] EXCEPT !.fired = TRUE]
              /\ \A k \in HandlerKeys : nsched'[k] = nsched[k] + Scheduled(k)
        /\ \A e \in (QpEventTypes \cup CookieEventTypes \cup PortEventTypes
                        \cup OtherEventTypes)
                        \ {"QP_LAST_WQE_REACHED", "DEVICE_FATAL"} :
              HandlerHandles(e) =>
                  /\ async_events_hash' = async_events_hash
                  /\ dev_failed' = dev_failed
                  /\ cbq' = cbq
                  /\ cb_id' = cb_id
                  /\ nsched' = nsched ]_vars

\* a QP-fatal event was handled while the key of that event type and QP
\* number is registered with a waiter: the key has not fired
C29_Witness ==
    /\ hdl.pc = "handled"
    /\ hdl.event = [event_type |-> "QP_FATAL", resource_id |-> 1]
    /\ hdl.event \in DOMAIN async_events_hash
    /\ async_events_hash[hdl.event].wait_ctx # NULL
    /\ ~async_events_hash[hdl.event].fired
    /\ cbq = <<>>

\* how often step x occurs in the log of the invocation
Occurs(x) == Cardinality({i \in DOMAIN hdl.log : hdl.log[i] = x})

\* every occurrence of step x in the log is before every occurrence of y
Before(x, y) ==
    \A i \in DOMAIN hdl.log, j \in DOMAIN hdl.log :
        (hdl.log[i] = x /\ hdl.log[j] = y) => i < j

\* C30: an invocation of the handler retrieves at most one event; a retrieved
\* event is handled (dispatched where its type asks for it, counted, logged)
\* and then acknowledged exactly once, after the dispatch; a failed retrieval
\* (would-block included) dispatches, acknowledges and counts nothing and
\* leaves the registry unchanged
C30_OneEventHandledThenAcked ==
    /\ [](/\ Occurs("get") + Occurs("get_failed") <= 1
          /\ Occurs("ack") <= Occurs("get")
          /\ Occurs("get_failed") = 1 =>
                /\ hdl.pc = "idle"
                /\ \A x \in {"dispatch", "dispatch_fatal", "count", "log", "ack"} :
                      Occurs(x) = 0
          /\ (Occurs("get") = 1 /\ hdl.pc = "idle") =>
                /\ Occurs("ack") = 1
                /\ Occurs("count") = 1
                /\ Occurs("log") = 1
                /\ Occurs("dispatch") =
                       (IF hdl.event.event_type = "QP_LAST_WQE_REACHED"
                        THEN 1 ELSE 0)
                /\ Occurs("dispatch_fatal") =
                       (IF hdl.event.event_type = "DEVICE_FATAL" THEN 1 ELSE 0)
          /\ \A x \in {"dispatch", "dispatch_fatal", "count", "log"} :
                Before("get", x) /\ Before(x, "ack"))
    /\ [][(hdl'.pc # "handled") =>
              /\ async_events_hash' = async_events_hash
              /\ dev_failed' = dev_failed
              /\ cbq' = cbq
              /\ nsched' = nsched]_vars

\* an invocation has retrieved a device-fatal event, dispatched it to a
\* registered key with a waiter, and acknowledged it
C30_Witness ==
    /\ hdl.pc = "idle"
    /\ hdl.log = <<"get", "dispatch_fatal", "count", "log", "ack">>
    /\ dev_failed
    /\ \E k \in DOMAIN async_events_hash :
          async_events_hash[k].fired /\ QueuedFor(cbq, k) # {}

(***************************************************************************)
(* The PCI bandwidth estimate (checked under SpecPci)                      *)
(***************************************************************************)
\* the estimator has run on files that were read, with a width and a speed
\* of the expected form
PciParsed ==
    /\ pci.done
    /\ pci.args.sysfs_path # NULL
    /\ pci.args.width_file.readable /\ pci.args.width_file.value >= 0
    /\ pci.args.speed_file.readable /\ pci.args.speed_file.value >= 0

\* the nominal rate of table entry i is within 1% of the speed bw
WithinOnePercent(bw, i) ==
    /\ bw * 100 <= 101 * uct_ib_device_pci_info[i].bw_gbps
    /\ bw * 100 >= 99 * uct_ib_device_pci_info[i].bw_gbps

\* the first table entry within 1% of the speed bw, 0 when there is none
FirstWithinOnePercent(bw) ==
    IF \E i \in DOMAIN uct_ib_device_pci_info : WithinOnePercent(bw, i)
    THEN CHOOSE i \in DOMAIN uct_ib_device_pci_info :
             /\ WithinOnePercent(bw, i)
             /\ \A j \in 1..(i - 1) : ~WithinOnePercent(bw, j)
    ELSE 0

\* the estimate for the width and the speed written in the files when the
\* entry is chosen by the 1% rule
EstimateWithinOnePercent ==
    LET i == FirstWithinOnePercent(pci.args.speed_file.value)
    IN IF i = 0
       THEN PciBwMax
       ELSE EffectiveBw(uct_ib_device_pci_info[i], pci.args.width_file.value)

\* C25: the estimator selects the first table entry whose nominal rate is
\* within 1% of the observed speed; a speed within 1% of no entry (between
\* two generations, below the lowest) yields the maximum-value sentinel
C25_EntryWithinOnePercent ==
    PciParsed => pci.bw = EstimateWithinOnePercent

\* C26: the estimator has no error outcome: with an unknown sysfs path, an
\* unreadable width or speed file, a width that is not an unsigned integer,
\* a speed that is not a number followed by GT/s, or no matching table entry
\* the stored bandwidth is the maximum representable value, otherwise it is
\* the effective bandwidth of the matched entry
C26_SentinelOrEffectiveBandwidth ==
    pci.done =>
        pci.bw = IF PciParsed THEN EstimateWithinOnePercent ELSE PciBwMax

(***************************************************************************)
(* Teardown of the handle cache (checked under SpecAhTeardown)             *)
(***************************************************************************)
\* C27: teardown destroys every cached handle exactly once: after
\* uct_ib_device_cleanup_ah_cached every handle that create_ah_cached has
\* inserted into the cache has been destroyed, none twice, and each was live
\* when it was destroyed
C27_TeardownDestroysOnce ==
    /\ [](td.cleaned =>
            /\ \A h \in Handles :
                  td.ndestroy[h] = (IF h \in td.cached THEN 1 ELSE 0)
            /\ ~td.stale)
    /\ [][(~td.cleaned /\ td'.cleaned) =>
              /\ td'.cached = Cached(ah_hash)
              /\ \A a \in AhAttrs :
                    \A g \in ah_given[a] : g[2] \in Cached(ah_hash)
              /\ \A h \in Cached(ah_hash) : h \in ah_live /\ h \notin ah_live'
              /\ ah_live' = ah_live \ Cached(ah_hash)]_vars

\* the cache held two handles when it was torn down
C27_Witness ==
    /\ td.cleaned
    /\ Cardinality(td.cached) = 2
    /\ ah_live = {}

\* C28: create_ah_cached never returns a destroyed handle with a success
\* status, also after the teardown of the cache: the handle returned on a
\* cache hit is a live handle
C28_ReturnedHandleLive ==
    \A t \in AhThreads :
        (ah_pc[t] = "unlock" /\ ah_call[t].status = "UCS_OK")
            => ah_call[t].ah_p \in ah_live

(***************************************************************************)
(* The async_event counter (checked under SpecStats)                       *)
(***************************************************************************)
\* the handler handles the event it has retrieved in this step
HandlesEvent == hdl.pc = "got" /\ hdl'.pc = "handled"

\* C31: the async_event counter of the device never decreases, grows by
\* exactly one with every hardware notification handled, whatever its type
\* and whether or not its key is registered, and is changed by nothing else
\* (register, wait, unregister, create_ah_cached, a callback)
C31_CounterCountsHandled ==
    [][ /\ hdl'.async_event >= hdl.async_event
        /\ HandlesEvent => hdl'.async_event = hdl.async_event + 1
        /\ ~HandlesEvent => hdl'.async_event = hdl.async_event ]_vars

\* two notifications were counted, the second one of a type that is not
\* dispatched and has no key, while a key is registered and a handle cached
C31_Witness ==
    /\ hdl.pc = "handled"
    /\ hdl.event.event_type = "PORT_ACTIVE"
    /\ hdl.async_event = 2
    /\ DOMAIN async_events_hash # {}
    /\ hdl.event \notin DOMAIN async_events_hash
    /\ DOMAIN ah_hash # {}

(***************************************************************************)
(* Resource discovery (checked under SpecQueryPorts)                       *)
(***************************************************************************)
\* the ports of the device that pass the port check with the given flags
PassingPorts(a) ==
    {p \in a.first_port..(a.first_port + a.num_ports - 1) :
        uct_ib_device_port_check(QueryPortCheckArgs(a, p)) = "UCS_OK"}

\* the listing names exactly the ports of S, in ascending order, each with
\* the system device of the device and the network type
ListsExactly(r, a, S) ==
    /\ r.written
    /\ r.num_tl_devices = Cardinality(S)
    /\ Len(r.tl_devices) = Cardinality(S)
    /\ {r.tl_devices[i].name[3] : i \in DOMAIN r.tl_devices} = S
    /\ \A i \in DOMAIN r.tl_devices, j \in DOMAIN r.tl_devices :
          i < j => r.tl_devices[i].name[3] < r.tl_devices[j].name[3]
    /\ \A i \in DOMAIN r.tl_devices :
          /\ r.tl_devices[i].type = "UCT_DEVICE_TYPE_NET"
          /\ r.tl_devices[i].sys_device = a.sys_dev

\* C32 as stated: discovery returns exactly the ports that pass the check, or
\* NoDevice without a listing when none passes
C32_ListsPassingPorts ==
    (fcall.name = "query_ports" /\ fcall.done) =>
        IF PassingPorts(fcall.args) = {}
        THEN fcall.result.status = "UCS_ERR_NO_DEVICE" /\ ~fcall.result.written
        ELSE /\ fcall.result.status = "UCS_OK"
             /\ ListsExactly(fcall.result, fcall.args, PassingPorts(fcall.args))

\* C32: when the listing can be allocated, discovery returns exactly the
\* ports of [first_port, first_port + num_ports) that pass the port check, in
\* ascending order, each with the system device of the device and the network
\* type; a failing port is skipped; when no port passes the result is
\* NoDevice without a listing; when the allocation fails it is NoMemory
\* without a listing
C32_ListsPassingPortsUnlessNoMemory ==
    (fcall.name = "query_ports" /\ fcall.done) =>
        IF ~fcall.args.calloc_ok
        THEN fcall.result.status = "UCS_ERR_NO_MEMORY" /\ ~fcall.result.written
        ELSE IF PassingPorts(fcall.args) = {}
        THEN fcall.result.status = "UCS_ERR_NO_DEVICE" /\ ~fcall.result.written
        ELSE /\ fcall.result.status = "UCS_OK"
             /\ ListsExactly(fcall.result, fcall.args, PassingPorts(fcall.args))

\* the first port fails the check and the second passes: the listing holds
\* the second port only
C32_Witness ==
    /\ fcall.name = "query_ports" /\ fcall.done
    /\ fcall.args.num_ports = 2
    /\ PassingPorts(fcall.args) = {fcall.args.first_port + 1}
    /\ fcall.result.status = "UCS_OK"
    /\ fcall.result.num_tl_devices = 1

(***************************************************************************)
(* Device query (checked under SpecQuery)                                  *)
(***************************************************************************)
\* the device-attribute query and every port-attribute query made succeed
QueriesSucceed(a) ==
    /\ a.query_device = "UCS_OK"
    /\ a.failing_port = 0
           \/ a.failing_port > (IF a.node_type = "IBV_NODE_SWITCH" THEN 1
                                ELSE IF a.phys_port_cnt > UCT_IB_DEV_MAX_PORTS
                                THEN UCT_IB_DEV_MAX_PORTS
                                ELSE a.phys_port_cnt)

\* the sysfs directory of the device was not found
NoSysfsPath(a) == ~a.realpath_ok \/ (~a.pf_stat_ok /\ ~a.sf_stat_ok)

NotDispatchedSince(k) ==
    /\ Len(trace[k]) < MaxTrace
    /\ \A i \in 1..Len(trace[k]) :
          trace[k][i] \notin {"dispatch", "dispatch_fatal"}

C34_DispatchUnregisteredNoOp ==
    [][\A t \in Threads :
          /\ (Body(t, "dispatch") /\ op[t].event \notin DOMAIN async_events_hash)
                => UNCHANGED <<async_events_hash, cb_id, cbq, ncb, nsched,
                               dev_failed, trace>>
          /\ (Body(t, "register") /\ status'[t] = "UCS_OK")
                => /\ ~async_events_hash'[op[t].event].fired
                   /\ async_events_hash'[op[t].event].wait_ctx = NULL
                   /\ NotDispatchedSince(op[t].event)'
          /\ (Body(t, "wait") /\ NotDispatchedSince(op[t].event))
                => /\ cbq' = cbq
                   /\ nsched' = nsched
                   /\ ~async_events_hash'[op[t].event].fired]_vars

C34_Witness ==
    /\ Returning("async", "dispatch")
    /\ op["async"].event \notin DOMAIN async_events_hash
    /\ DOMAIN async_events_hash # {}
    /\ \E k \in DOMAIN async_events_hash :
          async_events_hash[k].wait_ctx # NULL

\* ---------------------------------------------------------------------
\* C35: entries of the handle cache are immutable and never evicted by
\* create_ah_cached: no step of a call (hit, miss, failed creation or
\* failed insertion, for any key) changes or removes an existing entry, the
\* cache only grows, and a call that succeeds returns the handle its
\* attributes map to, the same handle for every later call
C35_EntriesImmutable ==
    /\ [](\A t \in AhThreads :
             (ah_pc[t] = "unlock" /\ ah_call[t].status = "UCS_OK")
                => /\ ah_call[t].attr \in DOMAIN ah_hash
                   /\ ah_hash[ah_call[t].attr] = ah_call[t].ah_p)
    /\ [](\A a \in AhAttrs : \A g \in ah_given[a] :
             a \in DOMAIN ah_hash /\ ah_hash[a] = g[2])
    /\ [][/\ DOMAIN ah_hash \subseteq DOMAIN ah_hash'
          /\ \A a \in DOMAIN ah_hash : ah_hash'[a] = ah_hash[a]]_vars

\* a second call for cached attributes returns the cached handle while the
\* cache holds another entry and an insertion has failed
C35_Witness ==
    /\ Cardinality(DOMAIN ah_hash) = 2
    /\ ah_put_failed
    /\ \E t \in AhThreads :
          /\ ah_pc[t] = "unlock"
          /\ ah_call[t].status = "UCS_OK"
          /\ ah_given[ah_call[t].attr] # {}
          /\ \A g \in ah_given[ah_call[t].attr] : g[2] = ah_call[t].ah_p

\* ---------------------------------------------------------------------
\* C36: in select_gid the probe is run only on entries whose (RoCE
\* version, address family) is the tier being scanned; an index returned
\* by the scan (not the fallback written after the loops) is the entry the
\* last probe was run on and that probe succeeded; and every probe
\* destroys the handle it created, so that no step of select_gid changes
\* the set of live handles or the handle cache
ProbedNow == Len(Probes') > Len(Probes)

C36_ProbeTierOnlyNoHandleLeft ==
    /\ [](gid_pc # "idle" => ah_live = {} /\ DOMAIN ah_hash = {})
    /\ [][/\ ProbedNow =>
                /\ gid_pc = "loop"
                /\ gid_log'[Len(gid_log')] = <<"probe", gid_i>>
                /\ ~QueryFails(gid_tbl[gid_i + 1])
                /\ ~ParseFails(gid_tbl[gid_i + 1])
                /\ TierOf(gid_tbl[gid_i + 1]) = prio_idx + 1
          /\ (gid_pc = "loop" /\ gid_pc' = "out" /\ gid_status' = "UCS_OK"
                  /\ prio_idx < priorities_arr_len) =>
                /\ ProbedNow
                /\ gid_info'.gid_index = gid_i
                /\ gid_tbl[gid_i + 1].live
          /\ ah_live' = ah_live
          /\ ah_hash' = ah_hash]_vars

\* the scan returned index 1 of the second tier after a failed probe of
\* index 0 in that tier
C36_Witness ==
    /\ gid_pc = "out"
    /\ gid_status = "UCS_OK"
    /\ Len(gid_tbl) = 2
    /\ gid_info.gid_index = 1
    /\ TierOf(gid_tbl[1]) = 2
    /\ TierOf(gid_tbl[2]) = 2
    /\ Probes = <<(<<"probe", 0>>), (<<"probe", 1>>)>>
    /\ ah_live = {}

HadCallback(k) == \E id \in DOMAIN cbq : cbq[id].event = k /\ cbq[id].cancelled

NearestRnrEncoding(time_ms, r) ==
    /\ r \in 0..(UCT_IB_FABRIC_TIME_MAX - 1)
    /\ time_ms > RnrTime(0) => r = 0
    /\ time_ms <= RnrTime(1) => r = 1
    /\ \A i \in 1..(UCT_IB_FABRIC_TIME_MAX - 1) :
          LET j == (i + 1) % UCT_IB_FABRIC_TIME_MAX
          IN (RnrTime(i) < time_ms /\ time_ms <= RnrTime(j)) =>
                r = IF time_ms < RnrAvg(i, j) THEN i ELSE j

\* C39: the encoder returns 0 for a time above the largest table value
\* (655.36 ms), 1 for a time at or below the smallest one (0.01 ms), and
\* for a time between the values of adjacent encodings i and j (j = 0 after
\* 31) it returns i when the time is below the mean of the two values and j
\* otherwise; the result is in 0..31 and, among the results 1..31, it does
\* not decrease when the time grows
C39_NearestEncoding ==
    /\ (fcall.name = "rnr" /\ fcall.calls >= 1) =>
          NearestRnrEncoding(fcall.t, fcall.ret)
    /\ (fcall.name = "rnr" /\ fcall.calls = 2) =>
          /\ NearestRnrEncoding(fcall.longer, fcall.ret_longer)
          /\ (fcall.ret # 0 /\ fcall.ret_longer # 0) =>
                fcall.ret <= fcall.ret_longer

\* a time at the mean of the values of encodings 5 and 6 got encoding 6 and
\* a time just below the mean of the values of 31 and 0 got encoding 31
C39_Witness ==
    /\ fcall.name = "rnr"
    /\ fcall.calls = 2
    /\ fcall.t = RnrAvg(5, 6)
    /\ fcall.ret = 6
    /\ fcall.longer = RnrAvg(31, 0) - 1
    /\ fcall.ret_longer = 31

====
